---- MODULE Spec2Model ----
(***************************************************************************)
(* Motor-control dispatch layer of the rover: the UART backend             *)
(* (UartMotorController wrapping HardwareGateway) and the PWM backend      *)
(* (PiPwmMotorController), both fed by the drive_command topic of the      *)
(* in-process message bus.                                                 *)
(*                                                                         *)
(* Time is discrete; one unit is 100 ms.  The code uses a timestamp only    *)
(* in a difference with the current time, so every timestamp is held as    *)
(* that difference (an age), which Tick increases and which stops growing  *)
(* once it is beyond every threshold the code compares it with.  Speeds    *)
(* are fixed-point numbers with SpeedScale units per 1.0: 80 is 0.8.       *)
(* An optional value (Python None / a value) is a sequence of length 0     *)
(* or 1.                                                                   *)
(***************************************************************************)
EXTENDS Integers, Sequences, FiniteSets, TLC

\* ------------------------------------------------------------------------
\* Bounds of the model
\* ------------------------------------------------------------------------
MaxStarts == 2        \* start() calls explored per behaviour
MaxFrames == 3        \* frames the encoder produces per behaviour
MaxPending == 1       \* undelivered drive_command messages in a queue
MaxGarbage == 2       \* arbitrary bytes fed to a parser ahead of its input
MaxReads == 2         \* serial.read calls that return per behaviour
MaxSubscribes == 2    \* subscribe calls per behaviour
MaxPublishes == 4     \* publish calls per behaviour
MaxReadErrors == 1    \* failures of the serial port on the receive side

\* Configuration the model is run with (constructor arguments)
MaxCommandAge == 2    \* max_command_age, in clock units
CommandPeriod == 1    \* 1 / command_rate_hz, in clock units
BusQueueSize == 2     \* queue_size of the MessageBus

\* Floating-point format the shaper is run with
MantissaBits == 6     \* significant bits of a float
FracBits == 10        \* the smallest positive float is 2^-FracBits

\* ------------------------------------------------------------------------
\* Program constants
\* ------------------------------------------------------------------------
SpeedScale == 100              \* fixed-point units per 1.0 of speed
Q15_MAX == 32767
DRIVE_FLAG_ESTOP == 1
DRIVE_FLAG_ENABLE_REQUEST == 2
MSG_DRIVE_CMD == 1
MSG_STOP_CMD == 2
SEQ_MOD == 256
PollTimeout == 1               \* 100 ms, wait_for timeout of the PWM listener
DeadbandPwm == 5               \* 0.05
QueueSize == 100

None == <<>>
Some(x) == <<x>>
Max2(a, b) == IF a >= b THEN a ELSE b
Abs(x) == IF x >= 0 THEN x ELSE -x

\* ------------------------------------------------------------------------
\* DriveCommand values the environment produces
\* ------------------------------------------------------------------------
\* age is now - timestamp
DriveCommand(l, r, en, es, age) ==
    [left_speed |-> l, right_speed |-> r, enable_request |-> en,
     estop |-> es, age |-> age]

\* ages stop growing here
AgeCap == MaxCommandAge + 1
LastCommandCap == MaxCommandAge + PollTimeout + 1

\* (left, right, enable_request, estop) of the commands published
CommandShapes ==
    { <<80, 80, TRUE, FALSE>>,     \* forward 0.8
      <<-100, 3, TRUE, FALSE>>,    \* reverse left, right inside the deadband
      <<80, 80, TRUE, TRUE>>,      \* emergency stop with speeds still set
      <<80, -100, FALSE, FALSE>> } \* enable withdrawn

\* A command reaches the bus with a fresh timestamp, or with one that is
\* already older than max_command_age.
Commands ==
    { DriveCommand(s[1], s[2], s[3], s[4], a) :
        s \in CommandShapes, a \in {0, AgeCap} }

Min2(a, b) == IF a <= b THEN a ELSE b

\* a command, an optional command and a queue one time unit later
Aged(cmd) == [cmd EXCEPT !.age = Min2(cmd.age + 1, AgeCap)]
AgedOpt(slot) == IF slot = None THEN None ELSE Some(Aged(slot[1]))
AgedQueue(q) == [i \in DOMAIN q |-> Aged(q[i])]

\* ------------------------------------------------------------------------
\* Protocol codec (the part the sender uses)
\* ------------------------------------------------------------------------
Clamp(x) ==
    IF x > SpeedScale THEN SpeedScale
    ELSE IF x < -SpeedScale THEN -SpeedScale ELSE x

\* Python int(): truncation towards zero of n / d
IntTrunc(n, d) == IF n >= 0 THEN n \div d ELSE -((-n) \div d)

SpeedToQ15(x) == IntTrunc(Clamp(x) * Q15_MAX, SpeedScale)

FlagsNoEstop(enable, estop) ==
    IF enable THEN DRIVE_FLAG_ENABLE_REQUEST ELSE 0

Flags(enable, estop) ==
    (IF estop THEN DRIVE_FLAG_ESTOP ELSE 0)
      + (IF enable THEN DRIVE_FLAG_ENABLE_REQUEST ELSE 0)

from_speeds(left_speed, right_speed, enable, estop) ==
    [left_q15 |-> SpeedToQ15(left_speed),
     right_q15 |-> SpeedToQ15(right_speed),
     flags |-> Flags(enable, estop)]

\* FrameEncoder.encode_drive_cmd: the frame for sequence number seq
encode_drive_cmd(seq, left_speed, right_speed, enable, estop) ==
    LET p == from_speeds(left_speed, right_speed, enable, estop)
    IN [msg_type |-> MSG_DRIVE_CMD, seq |-> seq,
        left_q15 |-> p.left_q15, right_q15 |-> p.right_q15,
        flags |-> p.flags]

\* ------------------------------------------------------------------------
\* Stale-command rule of the UART sender
\* ------------------------------------------------------------------------
\* hardware_gateway.py line 146: age > self.max_command_age_s
StaleUartNever(age) == FALSE

StaleUart(age) == age > MaxCommandAge

\* the command the sender substitutes for a stale one
StaleCommand == DriveCommand(0, 0, TRUE, FALSE, 0)

\* the command the sender uses while the slot is None
NoCommandStop == DriveCommand(0, 0, FALSE, FALSE, 0)

\* every command in the slot is replaced by the safe one
SelectCommandAlwaysSafe(slot) ==
    IF slot # None THEN StaleCommand ELSE NoCommandStop

\* a stale command loses its left speed only
SelectCommandTorn(slot) ==
    IF slot # None
    THEN IF StaleUart(slot[1].age)
         THEN [slot[1] EXCEPT !.left_speed = 0]
         ELSE slot[1]
    ELSE NoCommandStop

\* the command an iteration of the sender encodes
SelectCommand(slot) ==
    IF slot # None
    THEN IF StaleUart(slot[1].age) THEN StaleCommand ELSE slot[1]
    ELSE NoCommandStop

VARIABLES
    backend,            \* control.backend: "uart" or "pi_pwm"
    starts,             \* start() calls made so far
    raised,             \* error raised by the last API call, "none" if it returned
    stopPc,             \* "idle", or "gathering" while stop() awaits its tasks
    subscribed,         \* the backend's live task has a queue on the bus
    queue,              \* that queue
    orphans,            \* queues left on the bus by tasks that were cancelled
    delivered,          \* a command reached the backend since its last start()
    submitted,          \* argument of the last send_drive_command call
    \* HardwareGateway
    gw_running,
    gw_serial,          \* "none", "open", "closed"
    gw_connected,       \* link_status.connected
    current_drive_cmd,
    gw_sender,          \* "none", "sleeping", "writing", "done"
    gw_subscriber,      \* "none", "spawned", "waiting", "done"
    sleep_time,         \* what is left of the sender's sleep
    pending,            \* frame handed to serial.write
    enc_seq,            \* FrameEncoder.seq
    frames_sent,        \* link_status.frames_sent
    wire,               \* last frame written to the serial port
    gw_receiver,        \* "none", "polling", "reading", "backoff", "done"
    parser,             \* the FrameParser
    last_telemetry,
    link_frames_received,   \* link_status.frames_received
    link_crc_errors,        \* link_status.crc_errors
    link_age_ms,            \* link_status.age_ms
    last_telemetry_time,    \* held as now - link_status.last_telemetry_time
    telemetry_tasks,    \* publish("telemetry", ...) tasks created so far
    publish_tasks,      \* those of them that have not run yet, oldest first,
                        \* each named by the number of its telemetry frame
    serial_opens,       \* serial.Serial(...) handles the last start() opened
    rx_reads,           \* serial.read calls that returned so far
    rx_errors,          \* errors the receiver task caught and logged
    \* a FrameParser fed byte by byte
    rx_case,            \* how the bytes to feed were built
    rx_garbage,         \* bytes fed before them
    rx_input,           \* the bytes of the case
    rx_pos,             \* how many of them were fed
    rx_frames,          \* the Frames feed_byte returned so far; in the
                        \* receiver task, the list the last feed_bytes
                        \* returned
    rx_exc,             \* feed_byte raised
    \* PiPwmMotorController
    gpio_available,     \* GPIO_AVAILABLE
    pwm_running,
    enabled,
    current_command,
    last_command_time,  \* held as now - last_command_time
    gpio,               \* pin modes, pin levels, PWM generators, duty cycles
    pwm_listener,       \* "none", "spawned", "waiting", "backoff", "done"
    waited,             \* how long the listener's wait_for has lasted
    \* MessageBus, every topic
    bus_subscribers,    \* _subscribers: for each topic, its list of queues
    bus_stats,          \* _stats: the pub_ and the drop_ count of each topic
    bus_queues,         \* content of the queues subscribe created, in the
                        \* order of their creation
    bus_topic,          \* the topic each of them was created for
    bus_calls,          \* publish calls made on each topic, and how many
                        \* (call, subscriber) pairs met a full queue
    bus_since,          \* for each queue, the messages published on its
                        \* topic since it was created
    bus_got,            \* for each queue, the messages its owner dequeued
    \* TeleopService
    current_left,
    current_right,
    teleop_input,       \* the TeleopInput processed last, with the time
                        \* since the call before it
    teleop_hold         \* the UI repeats that input from now on

busVars == <<subscribed, queue, orphans, delivered>>
apiVars == <<raised, stopPc, submitted, starts>>
gwVars == <<gw_running, gw_serial, gw_connected, current_drive_cmd, gw_sender,
            gw_subscriber, sleep_time, pending, enc_seq, frames_sent, wire>>
pwmVars == <<pwm_running, enabled, current_command, last_command_time, gpio,
             pwm_listener, waited>>
parserVars ==
    <<parser, rx_case, rx_garbage, rx_input, rx_pos, rx_frames, rx_exc>>
rxData == <<last_telemetry, link_frames_received, link_crc_errors,
            link_age_ms, telemetry_tasks, publish_tasks, rx_reads,
            rx_errors>>
rxVars == <<gw_receiver, last_telemetry_time, rxData>>
mbVars == <<bus_subscribers, bus_stats, bus_queues, bus_topic, bus_calls,
            bus_since, bus_got>>
shVars == <<current_left, current_right, teleop_input, teleop_hold>>
hVars == <<serial_opens>>
svcVars == <<mbVars, shVars, hVars>>
vars == <<backend, gpio_available, busVars, apiVars, gwVars, pwmVars,
          parserVars, rxVars, svcVars>>

Backends == {"uart", "pi_pwm"}

TaskAlive(pc) == pc \notin {"none", "done"}

\* task.cancel() without effect
NotCancelled(pc) == pc

Cancelled(pc) == IF pc = "none" THEN "none" ELSE "done"

\* ------------------------------------------------------------------------
\* Message bus, topic drive_command
\* ------------------------------------------------------------------------
\* Queue.put_nowait inside MessageBus.publish: a full queue drops the message
put_nowait(q, m) == IF Len(q) < QueueSize THEN Append(q, m) ELSE q

\* No code calls unsubscribe: the queue of a cancelled task stays among the
\* subscribers.  Nothing reads it again, so its content is dropped here.
Orphaned(pc) == IF pc = "waiting" THEN 1 ELSE 0

\* the teleop shaper publishes a DriveCommand
Publish ==
    /\ subscribed
    /\ Len(queue) < MaxPending
    /\ \E cmd \in Commands : queue' = put_nowait(queue, cmd)
    /\ UNCHANGED <<svcVars, backend, gpio_available, parserVars, rxVars,
                   subscribed, orphans, delivered,
                   apiVars, gwVars, pwmVars>>

\* ------------------------------------------------------------------------
\* UART backend: UartMotorController and its HardwareGateway
\* ------------------------------------------------------------------------
open_serial(serial, connected, ok) ==
    IF ok
    THEN [serial |-> "open", connected |-> TRUE, raised |-> "none"]
    ELSE [serial |-> serial, connected |-> connected,
          raised |-> "SerialException"]

close_serial_unguarded(serial) ==
    [serial |-> IF serial = "none" THEN serial ELSE "closed",
     connected |-> serial = "none",
     raised |-> IF serial = "none" THEN "AttributeError" ELSE "none"]

close_serial(serial) ==
    [serial |-> IF serial = "open" THEN "closed" ELSE serial,
     connected |-> FALSE, raised |-> "none"]

\* UartMotorController.start: open_serial(), then HardwareGateway.start(),
\* which calls open_serial() again, sets running and spawns the tasks
UartStart ==
    /\ backend = "uart"
    /\ stopPc = "idle"
    /\ ~gw_running
    /\ starts < MaxStarts
    /\ starts' = starts + 1
    /\ \E ok1 \in BOOLEAN, ok2 \in BOOLEAN :
         /\ LET o1 == open_serial(gw_serial, gw_connected, ok1)
                o2 == open_serial(o1.serial, o1.connected, ok2)
            IN IF o1.raised # "none"
               THEN /\ raised' = o1.raised
                    /\ UNCHANGED <<gwVars, gw_receiver>>
               ELSE /\ gw_serial' = o2.serial
                    /\ gw_connected' = o2.connected
                    /\ raised' = o2.raised
                    /\ IF o2.raised # "none"
                       THEN UNCHANGED <<gw_running, gw_sender, gw_subscriber,
                                        gw_receiver, sleep_time>>
                       ELSE /\ gw_running' = TRUE
                            /\ gw_receiver' = "polling"
                            /\ gw_sender' = "sleeping"
                            /\ sleep_time' = 0
                            /\ gw_subscriber' = "spawned"
                    /\ UNCHANGED <<current_drive_cmd, pending, enc_seq,
                                   frames_sent, wire>>
         /\ serial_opens' = (IF ok1 THEN 1 ELSE 0)
                             + (IF ok1 /\ ok2 THEN 1 ELSE 0)
    /\ delivered' = FALSE
    /\ UNCHANGED <<mbVars, shVars, backend, gpio_available, parserVars, last_telemetry_time,
                   rxData, subscribed, queue, orphans, stopPc, submitted,
                   pwmVars>>

\* HardwareGateway.stop up to the await of gather: running is cleared and
\* every task is cancelled.  A write already running on the executor thread
\* is not interrupted by the cancellation: it may still reach the port.
UartStopBegin ==
    /\ backend = "uart"
    /\ stopPc = "idle"
    /\ stopPc' = "gathering"
    /\ gw_running' = FALSE
    /\ gw_sender' = Cancelled(gw_sender)
    /\ gw_subscriber' = Cancelled(gw_subscriber)
    /\ gw_receiver' = Cancelled(gw_receiver)
    /\ pending' = None
    /\ IF gw_sender = "writing"
       THEN wire' \in {wire, pending}
       ELSE wire' = wire
    /\ subscribed' = FALSE
    /\ queue' = <<>>
    /\ orphans' = orphans + Orphaned(gw_subscriber)
    /\ UNCHANGED <<svcVars, backend, gpio_available, parserVars, last_telemetry_time,
                   rxData, delivered, raised, submitted, starts,
                   gw_serial, gw_connected, current_drive_cmd, sleep_time,
                   enc_seq, frames_sent, pwmVars>>

\* HardwareGateway.stop after gather: close_serial()
UartStopFinish ==
    /\ backend = "uart"
    /\ stopPc = "gathering"
    /\ stopPc' = "idle"
    /\ LET c == close_serial(gw_serial)
       IN /\ gw_serial' = c.serial
          /\ gw_connected' = c.connected
          /\ raised' = c.raised
    /\ UNCHANGED <<svcVars, backend, gpio_available, parserVars, rxVars,
                   busVars, submitted, starts,
                   gw_running, current_drive_cmd, gw_sender, gw_subscriber,
                   sleep_time, pending, enc_seq, frames_sent, wire, pwmVars>>

\* _drive_cmd_subscriber_task: bus.subscribe("drive_command")
UartSubscribe ==
    /\ gw_subscriber = "spawned"
    /\ gw_subscriber' = "waiting"
    /\ subscribed' = TRUE
    /\ queue' = <<>>
    /\ UNCHANGED <<svcVars, backend, gpio_available, parserVars, rxVars,
                   orphans, delivered, apiVars,
                   gw_running,
                   gw_serial, gw_connected, current_drive_cmd, gw_sender,
                   sleep_time, pending, enc_seq, frames_sent, wire, pwmVars>>

\* _drive_cmd_subscriber_task: queue.get() returns, the slot is replaced
UartSubscriberGet ==
    /\ gw_subscriber = "waiting"
    /\ queue # <<>>
    /\ current_drive_cmd' = Some(Head(queue))
    /\ queue' = Tail(queue)
    /\ delivered' = TRUE
    /\ UNCHANGED <<svcVars, backend, gpio_available, parserVars, rxVars,
                   subscribed, orphans, apiVars,
                   gw_running, gw_serial, gw_connected, gw_sender,
                   gw_subscriber, sleep_time, pending, enc_seq, frames_sent, wire,
                   pwmVars>>

\* _command_sender_task, one iteration up to the await of serial.write:
\* snapshot the slot, apply the stale rule, encode.  The sleep at the end of
\* the iteration lasts until start_time + command_period, or not at all when
\* the write overran.
SenderTick ==
    /\ gw_sender = "sleeping"
    /\ sleep_time = 0
    /\ enc_seq < MaxFrames
    /\ LET cmd == SelectCommand(current_drive_cmd)
       IN pending' = Some(encode_drive_cmd(enc_seq, cmd.left_speed,
                                           cmd.right_speed,
                                           cmd.enable_request, cmd.estop))
    /\ enc_seq' = (enc_seq + 1) % SEQ_MOD
    /\ sleep_time' = CommandPeriod
    /\ gw_sender' = "writing"
    /\ UNCHANGED <<svcVars, backend, gpio_available, parserVars, rxVars,
                   busVars, apiVars, gw_running,
                   gw_serial, gw_connected, current_drive_cmd, gw_subscriber,
                   frames_sent, wire, pwmVars>>

\* serial.write returned: count the frame, then sleep
SenderWriteOk ==
    /\ gw_sender = "writing"
    /\ wire' = pending
    /\ pending' = None
    /\ frames_sent' = frames_sent + 1
    /\ gw_sender' = "sleeping"
    /\ UNCHANGED <<svcVars, backend, gpio_available, parserVars, rxVars,
                   busVars, apiVars, gw_running,
                   gw_serial, gw_connected, current_drive_cmd, gw_subscriber,
                   sleep_time, enc_seq, pwmVars>>

\* serial.write raised: logged, nothing written, then sleep
SenderWriteFail ==
    /\ gw_sender = "writing"
    /\ pending' = None
    /\ gw_sender' = "sleeping"
    /\ UNCHANGED <<svcVars, backend, gpio_available, parserVars, rxVars,
                   busVars, apiVars, gw_running,
                   gw_serial, gw_connected, current_drive_cmd, gw_subscriber,
                   sleep_time, enc_seq, frames_sent, wire, pwmVars>>

\* ------------------------------------------------------------------------
\* Frames on the wire: uart_protocol.py.  A byte is a number in 0..255, a
\* byte string a sequence of bytes.
\* ------------------------------------------------------------------------
SOF_BYTE_0 == 170
SOF_BYTE_1 == 85
PROTOCOL_VERSION == 1
MSG_TELEMETRY == 16
MSG_ENCODER_DATA == 17
MSG_HEARTBEAT == 254
BYTE_MOD == 256
WORD_MOD == 65536
CRC_INIT == 65535
CRC_POLY == 4129
CRC_TOP_BIT == 32768
CRC_BITS == 8
NIBBLE_BITS == 4
NIBBLE_MOD == 16
HEADER_SIZE == 4
PAYLOAD_BUF_SIZE == 255
CRC_SIZE == 2
TELEMETRY_SIZE == 10

\* a ^ b on naturals
\* sequencing of two statements: F applied to the value of v (v is worked
\* out once, before F uses it)
Then(v, F(_)) == CHOOSE r \in { F(x) : x \in {v} } : TRUE

\* a ^ b for a, b in 0..NIBBLE_MOD - 1, bits from..NIBBLE_BITS - 1
RECURSIVE XorFrom(_, _, _)
XorFrom(a, b, from) ==
    IF from = NIBBLE_BITS THEN 0
    ELSE (((a \div (2 ^ from)) + (b \div (2 ^ from))) % 2) * (2 ^ from)
           + XorFrom(a, b, from + 1)

\* the table of a ^ b for four-bit a and b
XorNibble ==
    [a \in 0..(NIBBLE_MOD - 1) |->
       [b \in 0..(NIBBLE_MOD - 1) |-> XorFrom(a, b, 0)]]

\* a ^ b for a, b in 0..WORD_MOD - 1, four bits at a time
BitXor(a, b) ==
    XorNibble[a % NIBBLE_MOD][b % NIBBLE_MOD]
      + NIBBLE_MOD * XorNibble[(a \div NIBBLE_MOD) % NIBBLE_MOD]
                              [(b \div NIBBLE_MOD) % NIBBLE_MOD]
      + BYTE_MOD * XorNibble[(a \div BYTE_MOD) % NIBBLE_MOD]
                            [(b \div BYTE_MOD) % NIBBLE_MOD]
      + BYTE_MOD * NIBBLE_MOD * XorNibble[a \div (BYTE_MOD * NIBBLE_MOD)]
                                         [b \div (BYTE_MOD * NIBBLE_MOD)]

\* crc16_ccitt, one pass of the inner loop
CrcStep(crc) ==
    IF crc >= CRC_TOP_BIT
    THEN BitXor((crc * 2) % WORD_MOD, CRC_POLY)
    ELSE (crc * 2) % WORD_MOD

\* crc16_ccitt, the inner loop: n passes over the register
RECURSIVE CrcShift(_, _)
CrcShift(crc, n) ==
    IF n = 0 THEN crc
    ELSE Then(CrcStep(crc), LAMBDA c : CrcShift(c, n - 1))

\* crc16_ccitt, the body of the outer loop for one byte
CrcByte(crc, byte) ==
    Then(BitXor(crc, byte * BYTE_MOD), LAMBDA c : CrcShift(c, CRC_BITS))

\* crc16_ccitt, the outer loop over bytes lo..hi of data, in order: the
\* first half of the range, then the second half from the register the
\* first half left
RECURSIVE CrcFold(_, _, _, _)
CrcFold(crc, data, lo, hi) ==
    IF lo > hi THEN crc
    ELSE IF lo = hi THEN CrcByte(crc, data[lo])
    ELSE Then(CrcFold(crc, data, lo, (lo + hi) \div 2),
              LAMBDA left : CrcFold(left, data, ((lo + hi) \div 2) + 1, hi))

crc16_ccitt(data) ==
    Then(data, LAMBDA d : CrcFold(CRC_INIT, d, 1, Len(d)))

Frame(version, msg_type, seq, payload) ==
    [version |-> version, msg_type |-> msg_type, seq |-> seq,
     payload |-> payload]

\* struct.pack('>H', x): the high byte first
PackU16BigEndian(x) == << x \div BYTE_MOD, x % BYTE_MOD >>

\* struct.pack('<H', x)
PackU16(x) == << x % BYTE_MOD, x \div BYTE_MOD >>

\* Frame.encode
FrameEncode(f) ==
    LET crc_data == << f.version, f.msg_type, f.seq, Len(f.payload) >>
                      \o f.payload
    IN << SOF_BYTE_0, SOF_BYTE_1 >> \o crc_data
         \o PackU16(crc16_ccitt(crc_data))

\* len(Frame.encode(f))
EncodedLen(f) == 2 + HEADER_SIZE + Len(f.payload) + CRC_SIZE

\* ------------------------------------------------------------------------
\* FrameParser.  payload_buf is a bytearray of PAYLOAD_BUF_SIZE zeros; the
\* model keeps the prefix that was written, the rest reads as 0.
\* ------------------------------------------------------------------------
\* FrameParser.__init__
ParserInit ==
    [state |-> "SCANNING_SOF",
     sof_buf |-> <<0, 0>>,
     header_buf |-> <<0, 0, 0, 0>>,
     header_idx |-> 0,
     payload_buf |-> <<>>,
     payload_idx |-> 0,
     payload_len |-> 0,
     crc_buf |-> <<0, 0>>,
     crc_idx |-> 0,
     version |-> 0,
     msg_type |-> 0,
     seq |-> 0,
     frames_received |-> 0,
     crc_errors |-> 0,
     version_errors |-> 0]

\* payload_buf[idx]
BufRead(buf, idx) == IF idx < Len(buf) THEN buf[idx + 1] ELSE 0

\* payload_buf[idx] = byte
BufWrite(buf, idx, byte) ==
    [i \in 1..Max2(Len(buf), idx + 1) |->
       IF i = idx + 1 THEN byte ELSE BufRead(buf, i - 1)]

\* bytes(payload_buf[:n])
BufSlice(buf, n) == [i \in 1..n |-> BufRead(buf, i - 1)]

\* what feed_byte hands back: the parser, the Frame or None, and whether an
\* IndexError escaped
FeedResult(p, frame, exc) == [parser |-> p, frame |-> frame, exc |-> exc]

\* feed_sof with a matcher that starts over after a mismatch instead of
\* sliding: the byte after a lone SOF_BYTE_0 is dropped from the window
feed_sof_restart(p, byte) ==
    LET sof == << p.sof_buf[2], byte >>
    IN IF sof[1] = SOF_BYTE_0 /\ sof[2] = SOF_BYTE_1
       THEN [p EXCEPT !.sof_buf = sof, !.state = "READING_HEADER",
                      !.header_idx = 0]
       ELSE IF sof[1] = SOF_BYTE_0 THEN [p EXCEPT !.sof_buf = <<0, 0>>]
       ELSE [p EXCEPT !.sof_buf = sof]

\* feed_sof without the reset of header_idx
feed_sof_keep_idx(p, byte) ==
    LET sof == << p.sof_buf[2], byte >>
    IN IF sof[1] = SOF_BYTE_0 /\ sof[2] = SOF_BYTE_1
       THEN [p EXCEPT !.sof_buf = sof, !.state = "READING_HEADER"]
       ELSE [p EXCEPT !.sof_buf = sof]

feed_sof(p, byte) ==
    LET sof == << p.sof_buf[2], byte >>
    IN IF sof[1] = SOF_BYTE_0 /\ sof[2] = SOF_BYTE_1
       THEN [p EXCEPT !.sof_buf = sof, !.state = "READING_HEADER",
                      !.header_idx = 0]
       ELSE [p EXCEPT !.sof_buf = sof]

\* feed_header that counts a wrong version and reads on
feed_header_reads_on(p, byte) ==
    LET hb == [p.header_buf EXCEPT ![p.header_idx + 1] = byte]
        q == [p EXCEPT !.header_buf = hb, !.header_idx = p.header_idx + 1]
    IN IF q.header_idx < HEADER_SIZE THEN q
       ELSE LET r == [q EXCEPT !.version = hb[1], !.msg_type = hb[2],
                               !.seq = hb[3], !.payload_len = hb[4],
                               !.version_errors =
                                 IF hb[1] # PROTOCOL_VERSION
                                 THEN q.version_errors + 1
                                 ELSE q.version_errors]
            IN IF r.payload_len > 0
               THEN [r EXCEPT !.payload_idx = 0, !.state = "READING_PAYLOAD"]
               ELSE [r EXCEPT !.payload_idx = 0, !.state = "READING_CRC",
                              !.crc_idx = 0]

feed_header(p, byte) ==
    LET hb == [p.header_buf EXCEPT ![p.header_idx + 1] = byte]
        q == [p EXCEPT !.header_buf = hb, !.header_idx = p.header_idx + 1]
    IN IF q.header_idx < HEADER_SIZE THEN q
       ELSE LET r == [q EXCEPT !.version = hb[1], !.msg_type = hb[2],
                               !.seq = hb[3], !.payload_len = hb[4]]
            IN IF r.version # PROTOCOL_VERSION
               THEN [r EXCEPT !.version_errors = r.version_errors + 1,
                              !.state = "SCANNING_SOF"]
               ELSE IF r.payload_len > 0
               THEN [r EXCEPT !.payload_idx = 0, !.state = "READING_PAYLOAD"]
               ELSE [r EXCEPT !.payload_idx = 0, !.state = "READING_CRC",
                              !.crc_idx = 0]

\* feed_payload without the transition to READING_CRC
feed_payload_unbounded(p, byte) ==
    [p EXCEPT !.payload_buf = BufWrite(p.payload_buf, p.payload_idx, byte),
              !.payload_idx = p.payload_idx + 1]

\* feed_payload that compares with > and reads one payload byte too many
feed_payload_one_more(p, byte) ==
    LET q == [p EXCEPT !.payload_buf = BufWrite(p.payload_buf, p.payload_idx,
                                                byte),
                       !.payload_idx = p.payload_idx + 1]
    IN IF q.payload_idx > q.payload_len
       THEN [q EXCEPT !.state = "READING_CRC", !.crc_idx = 0]
       ELSE q

feed_payload(p, byte) ==
    LET q == [p EXCEPT !.payload_buf = BufWrite(p.payload_buf, p.payload_idx,
                                                byte),
                       !.payload_idx = p.payload_idx + 1]
    IN IF q.payload_idx >= q.payload_len
       THEN [q EXCEPT !.state = "READING_CRC", !.crc_idx = 0]
       ELSE q

\* feed_crc without the comparison: every frame is returned
feed_crc_unchecked(p, byte) ==
    LET cb == [p.crc_buf EXCEPT ![p.crc_idx + 1] = byte]
        q == [p EXCEPT !.crc_buf = cb, !.crc_idx = p.crc_idx + 1]
    IN IF q.crc_idx < CRC_SIZE THEN FeedResult(q, None, FALSE)
       ELSE FeedResult(
              [q EXCEPT !.state = "SCANNING_SOF",
                        !.frames_received = q.frames_received + 1],
              Some(Frame(q.version, q.msg_type, q.seq,
                         BufSlice(q.payload_buf, q.payload_len))),
              FALSE)

\* the second CRC byte: compare and emit or count the error
feed_crc(p, byte) ==
    LET cb == [p.crc_buf EXCEPT ![p.crc_idx + 1] = byte]
        q == [p EXCEPT !.crc_buf = cb, !.crc_idx = p.crc_idx + 1]
    IN IF q.crc_idx < CRC_SIZE THEN FeedResult(q, None, FALSE)
       ELSE LET received_crc == cb[1] + cb[2] * BYTE_MOD
                payload == BufSlice(q.payload_buf, q.payload_len)
                computed_crc == crc16_ccitt(q.header_buf \o payload)
                r == [q EXCEPT !.state = "SCANNING_SOF"]
            IN IF computed_crc = received_crc
               THEN FeedResult(
                      [r EXCEPT !.frames_received = r.frames_received + 1],
                      Some(Frame(r.version, r.msg_type, r.seq, payload)),
                      FALSE)
               ELSE FeedResult([r EXCEPT !.crc_errors = r.crc_errors + 1],
                               None, FALSE)

\* FrameParser.feed_byte.  A write past the end of a buffer raises
\* IndexError and leaves the parser as it was.
feed_byte(p, byte) ==
    CASE p.state = "SCANNING_SOF" -> FeedResult(feed_sof(p, byte), None, FALSE)
      [] p.state = "READING_HEADER" ->
           IF p.header_idx >= HEADER_SIZE THEN FeedResult(p, None, TRUE)
           ELSE FeedResult(feed_header(p, byte), None, FALSE)
      [] p.state = "READING_PAYLOAD" ->
           IF p.payload_idx >= PAYLOAD_BUF_SIZE THEN FeedResult(p, None, TRUE)
           ELSE FeedResult(feed_payload(p, byte), None, FALSE)
      [] p.state = "READING_CRC" ->
           IF p.crc_idx >= CRC_SIZE THEN FeedResult(p, None, TRUE)
           ELSE feed_crc(p, byte)

\* FrameParser.feed_bytes, bytes lo..hi of data in order, from the parser
\* and the frames of r: the first half of the range, then the second half.
\* An IndexError ends the call.
RECURSIVE FeedRange(_, _, _, _)
FeedRange(r, data, lo, hi) ==
    IF r.exc \/ lo > hi THEN r
    ELSE IF lo = hi
    THEN Then(feed_byte(r.parser, data[lo]),
              LAMBDA b : [parser |-> b.parser, frames |-> r.frames \o b.frame,
                          exc |-> b.exc])
    ELSE Then(FeedRange(r, data, lo, (lo + hi) \div 2),
              LAMBDA left : FeedRange(left, data, ((lo + hi) \div 2) + 1, hi))

feed_bytes(p, data) ==
    Then(<<p, data>>,
         LAMBDA a : FeedRange([parser |-> a[1], frames |-> <<>>,
                               exc |-> FALSE], a[2], 1, Len(a[2])))

\* ------------------------------------------------------------------------
\* RPi.GPIO as the PWM backend uses it
\* ------------------------------------------------------------------------
DirPins == {"left_in1", "left_in2", "right_in3", "right_in4"}
PwmPins == {"left_ena", "right_enb"}
Pins == DirPins \cup PwmPins
Sides == {"left", "right"}
PwmPin(side) == IF side = "left" THEN "left_ena" ELSE "right_enb"

\* level is the value last written to a direction pin, "UNDEF" when none was
\* written since the pin was set up.  GPIO.cleanup releases the pins.
GpioInit ==
    [mode |-> [p \in Pins |-> "unset"],
     level |-> [p \in DirPins |-> "UNDEF"],
     pwm |-> [s \in Sides |-> "none"],
     duty |-> [s \in Sides |-> 0],
     order_ok |-> TRUE,      \* no generator was started over a pin not yet LOW
     teardown_ok |-> TRUE,   \* no generator was stopped and no pin released
                             \* before the stop row was on the pins set up
     pins_ok |-> TRUE,       \* no write left both direction pins of a side
                             \* HIGH
     exc |-> FALSE]          \* a call raised

Op(o, p, v) == [op |-> o, pin |-> p, val |-> v]

\* the other direction pin of the same side
Partner(pin) ==
    CASE pin = "left_in1" -> "left_in2"
      [] pin = "left_in2" -> "left_in1"
      [] pin = "right_in3" -> "right_in4"
      [] pin = "right_in4" -> "right_in3"

\* every direction pin that is set up was driven LOW, and both duties are 0
StopRowOn(g) ==
    /\ \A p \in DirPins : g.mode[p] = "out" => g.level[p] = "LOW"
    /\ \A sd \in Sides : g.duty[sd] = 0

\* one call into the library; a call on a pin that is not set up raises
GpioStep(g, o) ==
    CASE o.op = "setup" ->
           [g EXCEPT !.mode[o.pin] = "out",
                     !.level = IF o.pin \in DirPins
                               THEN [g.level EXCEPT ![o.pin] = "UNDEF"]
                               ELSE g.level]
      [] o.op = "output" ->
           IF g.mode[o.pin] = "out"
           THEN [g EXCEPT !.level[o.pin] = o.val,
                          !.pins_ok = /\ g.pins_ok
                                      /\ ~(/\ o.val = "HIGH"
                                           /\ g.level[Partner(o.pin)]
                                                = "HIGH")]
           ELSE [g EXCEPT !.exc = TRUE]
      [] o.op = "pwm_new" ->
           IF g.mode[PwmPin(o.pin)] = "out"
           THEN [g EXCEPT !.pwm[o.pin] = "created"]
           ELSE [g EXCEPT !.exc = TRUE]
      [] o.op = "pwm_start" ->
           [g EXCEPT !.pwm[o.pin] = "running",
                     !.duty[o.pin] = o.val,
                     !.order_ok = /\ g.order_ok
                                  /\ \A p \in Pins : g.mode[p] = "out"
                                  /\ \A p \in DirPins : g.level[p] = "LOW"
                                  /\ o.val = 0]
      [] o.op = "duty" ->
           IF g.pwm[o.pin] # "none" /\ o.val \in 0..100
           THEN [g EXCEPT !.duty[o.pin] = o.val]
           ELSE [g EXCEPT !.exc = TRUE]
      [] o.op = "pwm_stop" ->
           [g EXCEPT !.pwm[o.pin] = "stopped",
                     !.teardown_ok = g.teardown_ok /\ StopRowOn(g)]
      [] o.op = "cleanup" ->
           [g EXCEPT !.mode = [p \in Pins |-> "unset"],
                     !.teardown_ok =
                        /\ g.teardown_ok
                        /\ StopRowOn(g)
                        /\ \A sd \in Sides : g.pwm[sd] # "running"]

\* run the calls in order until one raises; call number failAt fails by
\* itself (0: none does)
RECURSIVE RunOps(_, _, _)
RunOps(g, ops, failAt) ==
    IF ops = <<>> \/ g.exc THEN g
    ELSE IF failAt = 1 THEN [g EXCEPT !.exc = TRUE]
    ELSE RunOps(GpioStep(g, Head(ops)), Tail(ops), failAt - 1)

Caught(g) == [g EXCEPT !.exc = FALSE]

\* ------------------------------------------------------------------------
\* PWM backend: PiPwmMotorController
\* ------------------------------------------------------------------------
\* pi_pwm_motor_controller.py line 211: age > self.max_command_age_s
StalePwmNever(age) == FALSE

StalePwm(age) == age > MaxCommandAge

\* the GPIO calls of start(), lines 112-132
StartOps ==
    << Op("setup", "left_in1", 0), Op("setup", "left_in2", 0),
       Op("setup", "right_in3", 0), Op("setup", "right_in4", 0),
       Op("setup", "left_ena", 0), Op("setup", "right_enb", 0),
       Op("output", "left_in1", "LOW"), Op("output", "left_in2", "LOW"),
       Op("output", "right_in3", "LOW"), Op("output", "right_in4", "LOW"),
       Op("pwm_new", "left", 0), Op("pwm_new", "right", 0),
       Op("pwm_start", "left", 0), Op("pwm_start", "right", 0) >>

\* the calls of start() that the model lets fail: none, the third setup,
\* the creation of the right PWM generator
StartFaults == {0, 3, 12}

ApplyStopOps(g) ==
    << Op("output", "left_in1", "LOW"), Op("output", "left_in2", "LOW"),
       Op("output", "right_in3", "LOW"), Op("output", "right_in4", "LOW") >>
      \o (IF g.pwm["left"] # "none" THEN <<Op("duty", "left", 0)>> ELSE <<>>)
      \o (IF g.pwm["right"] # "none" THEN <<Op("duty", "right", 0)>> ELSE <<>>)

\* _apply_stop: an error is logged and swallowed, enabled is cleared only
\* when every call succeeded
apply_stop(avail, g, en) ==
    IF ~avail THEN [gpio |-> g, enabled |-> en]
    ELSE LET r == RunOps(g, ApplyStopOps(g), 0)
         IN [gpio |-> Caught(r), enabled |-> IF r.exc THEN en ELSE FALSE]

CleanupOps(g) ==
    (IF g.pwm["left"] # "none" THEN <<Op("pwm_stop", "left", 0)>> ELSE <<>>)
      \o (IF g.pwm["right"] # "none" THEN <<Op("pwm_stop", "right", 0)>>
          ELSE <<>>)
      \o << Op("cleanup", "all", 0) >>

\* _cleanup_gpio
cleanup_gpio(avail, g) ==
    IF ~avail THEN g ELSE Caught(RunOps(g, CleanupOps(g), 0))

\* _set_motor with the pins of the reverse branch exchanged
SetMotorOpsOneWay(in1_pin, in2_pin, side, speed) ==
    IF speed # 0
    THEN << Op("output", in1_pin, "HIGH"), Op("output", in2_pin, "LOW"),
            Op("duty", side, Min2((Abs(speed) * 100) \div SpeedScale, 100)) >>
    ELSE << Op("output", in1_pin, "LOW"), Op("output", in2_pin, "LOW"),
            Op("duty", side, 0) >>

\* _set_motor
SetMotorOps(in1_pin, in2_pin, side, speed) ==
    IF speed > 0
    THEN << Op("output", in1_pin, "HIGH"), Op("output", in2_pin, "LOW"),
            Op("duty", side, Min2((Abs(speed) * 100) \div SpeedScale, 100)) >>
    ELSE IF speed < 0
    THEN << Op("output", in1_pin, "LOW"), Op("output", in2_pin, "HIGH"),
            Op("duty", side, Min2((Abs(speed) * 100) \div SpeedScale, 100)) >>
    ELSE << Op("output", in1_pin, "LOW"), Op("output", in2_pin, "LOW"),
            Op("duty", side, 0) >>

\* _apply_command without the branch for estop and a missing enable_request
apply_command_unlatched(avail, g, en, cmd) ==
    IF ~avail THEN [gpio |-> g, enabled |-> en, exc |-> FALSE]
    ELSE LET r == RunOps(g,
                         SetMotorOps("left_in1", "left_in2", "left",
                                     cmd.left_speed)
                           \o SetMotorOps("right_in3", "right_in4", "right",
                                          cmd.right_speed),
                         0)
         IN [gpio |-> Caught(r), enabled |-> TRUE, exc |-> r.exc]

\* _apply_command; exc reports an error that escapes to the listener
apply_command(avail, g, en, cmd) ==
    IF ~avail THEN [gpio |-> g, enabled |-> en, exc |-> FALSE]
    ELSE IF cmd.estop \/ ~cmd.enable_request
    THEN [gpio |-> apply_stop(avail, g, en).gpio, enabled |-> FALSE,
          exc |-> FALSE]
    ELSE LET left_speed == IF Abs(cmd.left_speed) > DeadbandPwm
                           THEN cmd.left_speed ELSE 0
             right_speed == IF Abs(cmd.right_speed) > DeadbandPwm
                            THEN cmd.right_speed ELSE 0
             r == RunOps(g,
                         SetMotorOps("left_in1", "left_in2", "left",
                                     left_speed)
                           \o SetMotorOps("right_in3", "right_in4", "right",
                                          right_speed),
                         0)
         IN [gpio |-> Caught(r), enabled |-> TRUE, exc |-> r.exc]

\* PiPwmMotorController.start.  It has no await: it runs as one step.
PwmStart ==
    /\ backend = "pi_pwm"
    /\ stopPc = "idle"
    /\ ~pwm_running
    /\ starts < MaxStarts
    /\ starts' = starts + 1
    /\ IF ~gpio_available
       THEN /\ pwm_running' = TRUE
            /\ raised' = "none"
            /\ UNCHANGED <<gpio, pwm_listener>>
       ELSE \E f \in StartFaults :
              LET r == RunOps(gpio, StartOps, f)
              IN IF r.exc
                 THEN /\ gpio' = cleanup_gpio(gpio_available, Caught(r))
                      /\ raised' = "RuntimeError"
                      /\ UNCHANGED <<pwm_running, pwm_listener>>
                 ELSE /\ gpio' = r
                      /\ raised' = "none"
                      /\ pwm_running' = TRUE
                      /\ pwm_listener' = "spawned"
    /\ delivered' = FALSE
    /\ UNCHANGED <<svcVars, backend, gpio_available, parserVars, rxVars,
                   subscribed, queue, orphans,
                   stopPc, submitted, gwVars, enabled, current_command,
                   last_command_time, waited>>

\* PiPwmMotorController.stop up to the await of gather: running is cleared,
\* the motors are stopped, the listener is cancelled
PwmStopBegin ==
    /\ backend = "pi_pwm"
    /\ stopPc = "idle"
    /\ stopPc' = "gathering"
    /\ pwm_running' = FALSE
    /\ LET s == apply_stop(gpio_available, gpio, enabled)
       IN /\ gpio' = s.gpio
          /\ enabled' = s.enabled
    /\ pwm_listener' = Cancelled(pwm_listener)
    /\ subscribed' = FALSE
    /\ queue' = <<>>
    /\ orphans' = orphans + Orphaned(pwm_listener)
    /\ UNCHANGED <<svcVars, backend, gpio_available, parserVars, rxVars,
                   delivered, raised, submitted,
                   starts, gwVars,
                   current_command, last_command_time, waited>>

\* PiPwmMotorController.stop after gather: _tasks.clear(), _cleanup_gpio()
PwmStopFinish ==
    /\ backend = "pi_pwm"
    /\ stopPc = "gathering"
    /\ stopPc' = "idle"
    /\ raised' = "none"
    /\ gpio' = cleanup_gpio(gpio_available, gpio)
    /\ pwm_listener' = IF pwm_listener = "done" THEN "none" ELSE pwm_listener
    /\ UNCHANGED <<svcVars, backend, gpio_available, parserVars, rxVars,
                   busVars, submitted, starts,
                   gwVars, pwm_running, enabled, current_command,
                   last_command_time, waited>>

\* _command_listener_task: bus.subscribe("drive_command")
PwmSubscribe ==
    /\ pwm_listener = "spawned"
    /\ pwm_listener' = "waiting"
    /\ waited' = 0
    /\ subscribed' = TRUE
    /\ queue' = <<>>
    /\ UNCHANGED <<svcVars, backend, gpio_available, parserVars, rxVars,
                   orphans, delivered, apiVars,
                   gwVars, pwm_running,
                   enabled, current_command, last_command_time, gpio>>

\* _command_listener_task: queue.get() returns a command, which is stored by
\* send_drive_command and applied
PwmListenerGet ==
    /\ pwm_listener = "waiting"
    /\ queue # <<>>
    /\ LET cmd == Head(queue)
           a == apply_command(gpio_available, gpio, enabled, cmd)
       IN /\ current_command' = Some(cmd)
          /\ last_command_time' = Some(0)
          /\ submitted' = Some(cmd)
          /\ gpio' = a.gpio
          /\ enabled' = a.enabled
          /\ pwm_listener' = IF a.exc THEN "backoff" ELSE "waiting"
    /\ queue' = Tail(queue)
    /\ delivered' = TRUE
    /\ waited' = 0
    /\ UNCHANGED <<svcVars, backend, gpio_available, parserVars, rxVars,
                   subscribed, orphans, raised,
                   stopPc, starts, gwVars, pwm_running>>

\* the stale check of the listener's timeout branch
timeout_check(avail, g, en, cmdslot, lct) ==
    IF cmdslot # None /\ StalePwm(lct[1])
    THEN apply_stop(avail, g, en)
    ELSE [gpio |-> g, enabled |-> en]

\* _command_listener_task: wait_for timed out
PwmListenerTimeout ==
    /\ pwm_listener = "waiting"
    /\ queue = <<>>
    /\ waited >= PollTimeout
    /\ LET s == timeout_check(gpio_available, gpio, enabled, current_command,
                              last_command_time)
       IN /\ gpio' = s.gpio
          /\ enabled' = s.enabled
    /\ waited' = 0
    /\ UNCHANGED <<svcVars, backend, gpio_available, parserVars, rxVars,
                   busVars, apiVars, gwVars,
                   pwm_running, current_command, last_command_time,
                   pwm_listener>>

\* ------------------------------------------------------------------------
\* send_drive_command called directly on the controller
\* ------------------------------------------------------------------------
\* UartMotorController.send_drive_command forwards to
\* HardwareGateway.send_drive_command, which HardwareGateway does not define:
\* the call raises before its argument is used
UartSendDriveCommand ==
    /\ backend = "uart"
    /\ gw_running
    /\ raised' = "AttributeError"
    /\ UNCHANGED <<svcVars, backend, gpio_available, parserVars, rxVars,
                   busVars, stopPc, submitted,
                   starts, gwVars, pwmVars>>

\* PiPwmMotorController.send_drive_command
PwmSendDriveCommand ==
    /\ backend = "pi_pwm"
    /\ pwm_running
    /\ \E cmd \in Commands :
         /\ submitted' = Some(cmd)
         /\ current_command' = Some(cmd)
    /\ last_command_time' = Some(0)
    /\ raised' = "none"
    /\ UNCHANGED <<svcVars, backend, gpio_available, parserVars, rxVars,
                   busVars, stopPc, starts,
                   gwVars, pwm_running, enabled, gpio, pwm_listener,
                   waited>>

\* ------------------------------------------------------------------------
\* Time.  A task whose queue holds a message, or whose wait_for has timed
\* out, runs before the clock moves on.
\* ------------------------------------------------------------------------
Tick ==
    /\ ~(gw_subscriber = "waiting" /\ queue # <<>>)
    /\ ~(pwm_listener = "waiting" /\ (queue # <<>> \/ waited >= PollTimeout))
    /\ queue' = AgedQueue(queue)
    /\ submitted' = AgedOpt(submitted)
    /\ current_drive_cmd' = AgedOpt(current_drive_cmd)
    /\ current_command' = AgedOpt(current_command)
    /\ last_command_time' =
         IF last_command_time = None THEN None
         ELSE Some(Min2(last_command_time[1] + 1, LastCommandCap))
    /\ sleep_time' = Max2(sleep_time - 1, 0)
    /\ waited' = IF pwm_listener = "waiting" THEN waited + 1 ELSE waited
    /\ last_telemetry_time' =
         IF last_telemetry_time = None THEN None
         ELSE Some(Min2(last_telemetry_time[1] + 1, AgeCap))
    /\ UNCHANGED <<svcVars, backend, gpio_available, parserVars, gw_receiver, rxData,
                   subscribed, orphans, delivered,
                   raised, stopPc, starts, gw_running, gw_serial,
                   gw_connected, gw_sender,
                   gw_subscriber, pending, enc_seq, frames_sent, wire,
                   pwm_running, enabled, gpio, pwm_listener>>

\* ------------------------------------------------------------------------
\* A FrameParser fed byte by byte: up to MaxGarbage arbitrary bytes, then
\* the bytes of one case
\* ------------------------------------------------------------------------
GarbageBytes == {0, PROTOCOL_VERSION, SOF_BYTE_1, SOF_BYTE_0}

TelemetryBytes == <<16, 39, 240, 216, 224, 46, 65, 0, 5, 1>>

LongPayload == [i \in 1..PAYLOAD_BUF_SIZE |-> i % BYTE_MOD]

HeartbeatFrame == Frame(PROTOCOL_VERSION, MSG_HEARTBEAT, 255, <<>>)
SofPayloadFrame ==
    Frame(PROTOCOL_VERSION, MSG_DRIVE_CMD, SOF_BYTE_0,
          <<SOF_BYTE_0, SOF_BYTE_1>>)
OneByteFrame == Frame(PROTOCOL_VERSION, MSG_TELEMETRY, 0, <<SOF_BYTE_1>>)
TelemetryFrame == Frame(PROTOCOL_VERSION, MSG_TELEMETRY, 7, TelemetryBytes)
LongFrame == Frame(PROTOCOL_VERSION, MSG_ENCODER_DATA, SOF_BYTE_1, LongPayload)
EmptyFrame == Frame(PROTOCOL_VERSION, MSG_TELEMETRY, 0, <<>>)

ShortFrames == {HeartbeatFrame, SofPayloadFrame, OneByteFrame, TelemetryFrame}

\* byte sequences without an adjacent SOF_BYTE_0, SOF_BYTE_1
PairFree ==
    { <<>>, <<SOF_BYTE_0>>, <<SOF_BYTE_1>>, <<SOF_BYTE_1, SOF_BYTE_0>>,
      <<SOF_BYTE_0, SOF_BYTE_0>>, <<SOF_BYTE_0, 0, SOF_BYTE_1>>,
      <<SOF_BYTE_1, 0, SOF_BYTE_0, SOF_BYTE_0>> }

\* byte sequences ahead of a frame: the above, a whole frame, and the start
\* of one
Prefixes ==
    PairFree \cup { FrameEncode(HeartbeatFrame),
                    <<SOF_BYTE_0, SOF_BYTE_1, PROTOCOL_VERSION, 0>> }

FlipMasks == {1, 16, 128}
BadVersions == {0, 2, SOF_BYTE_0}

\* bytes with one bit of byte number at toggled
FlipBit(bytes, at, mask) ==
    [bytes EXCEPT ![at] = IF (bytes[at] \div mask) % 2 = 1
                          THEN bytes[at] - mask ELSE bytes[at] + mask]

Case(kind, g, f, at, mask, f2) ==
    [kind |-> kind, g |-> g, f |-> f, at |-> at, mask |-> mask, f2 |-> f2]

\* the bytes of a case
CaseInput(c) ==
    CASE c.kind = "frame" -> c.g \o FrameEncode(c.f)
      [] c.kind = "flip" ->
           FlipBit(FrameEncode(c.f), 2 + HEADER_SIZE + c.at, c.mask)
             \o FrameEncode(c.f2)
      [] c.kind = "version" ->
           << SOF_BYTE_0, SOF_BYTE_1, c.at >> \o c.g \o FrameEncode(c.f2)
      [] c.kind = "nested" ->
           << SOF_BYTE_0, SOF_BYTE_1, c.at >> \o FrameEncode(c.f)
      [] c.kind = "crctail" ->
           << SOF_BYTE_0, SOF_BYTE_1, c.at, 0, 0, 0 >>
             \o << SOF_BYTE_0, SOF_BYTE_1 >> \o c.g \o Tail(FrameEncode(c.f))

ParserCases ==
    { Case("frame", g, f, 0, 0, f) :
        g \in Prefixes, f \in ShortFrames }
      \cup { Case("frame", <<>>, LongFrame, 0, 0, LongFrame) }
      \cup { Case("flip", <<>>, f, at, mask, f2) :
               f \in {SofPayloadFrame, TelemetryFrame}, at \in {1, 2},
               mask \in FlipMasks, f2 \in {HeartbeatFrame, SofPayloadFrame} }
      \cup { Case("version", <<MSG_TELEMETRY, 0, 0>>, EmptyFrame, v,
                             0, f2) :
               v \in BadVersions, f2 \in {HeartbeatFrame, TelemetryFrame} }
      \cup { Case("nested", <<>>, EmptyFrame, v, 0, EmptyFrame) :
               v \in BadVersions }
      \cup { Case("crctail",
                             <<PROTOCOL_VERSION, MSG_TELEMETRY, 0, 0, 0,
                               SOF_BYTE_0>>,
                             f, 2, 0, f) :
               f \in {HeartbeatFrame, TelemetryFrame} }

\* one call of feed_byte
Feed(byte) ==
    LET r == feed_byte(parser, byte)
    IN /\ parser' = r.parser
       /\ rx_frames' = rx_frames \o r.frame
       /\ rx_exc' = r.exc

\* an arbitrary byte ahead of the input
FeedGarbage ==
    /\ rx_case.kind # "none"
    /\ rx_pos = 0
    /\ Len(rx_garbage) < MaxGarbage
    /\ ~rx_exc
    /\ \E byte \in GarbageBytes :
         /\ Feed(byte)
         /\ rx_garbage' = Append(rx_garbage, byte)
    /\ UNCHANGED <<svcVars, backend, gpio_available, busVars, apiVars, gwVars,
                   pwmVars, rxVars, rx_case, rx_input, rx_pos>>

\* the next byte of the input
FeedNext ==
    /\ rx_pos < Len(rx_input)
    /\ ~rx_exc
    /\ Feed(rx_input[rx_pos + 1])
    /\ rx_pos' = rx_pos + 1
    /\ UNCHANGED <<svcVars, backend, gpio_available, busVars, apiVars, gwVars,
                   pwmVars, rxVars, rx_case, rx_input, rx_garbage>>

\* ------------------------------------------------------------------------
\* HardwareGateway, the receive path
\* ------------------------------------------------------------------------
\* struct.unpack of 'H' and 'h': two bytes, low byte first
U16(lo, hi) == lo + hi * BYTE_MOD
S16(lo, hi) ==
    IF U16(lo, hi) >= CRC_TOP_BIT THEN U16(lo, hi) - WORD_MOD ELSE U16(lo, hi)

\* TelemetryPayload.decode without the length check: nothing is raised
decode_never_raises(data) == FALSE

\* TelemetryPayload.decode raises ValueError
decode_raises(data) == Len(data) # TELEMETRY_SIZE

\* TelemetryPayload.decode and the Telemetry built from it (its timestamp
\* is the time held in last_telemetry_time)
decode(data) ==
    [left_pwm |-> S16(BufRead(data, 0), BufRead(data, 1)),
     right_pwm |-> S16(BufRead(data, 2), BufRead(data, 3)),
     bus_voltage_mv |-> U16(BufRead(data, 4), BufRead(data, 5)),
     fault_flags |-> U16(BufRead(data, 6), BufRead(data, 7)),
     age_ms |-> U16(BufRead(data, 8), BufRead(data, 9))]

\* the fields _process_frame writes
RxState(lt, fr, age, ltt, tasks) ==
    [last_telemetry |-> lt, frames_received |-> fr, age_ms |-> age,
     last_telemetry_time |-> ltt, tasks |-> tasks]

\* HardwareGateway._process_frame
process_frame(s, frame) ==
    IF frame.msg_type = MSG_TELEMETRY /\ ~decode_raises(frame.payload)
    THEN RxState(Some(decode(frame.payload)), s.frames_received + 1,
                 decode(frame.payload).age_ms, Some(0), s.tasks + 1)
    ELSE s

\* the loop over the frames of a read, ended by the first frame that
\* cannot be decoded
RECURSIVE ProcessFramesUntilError(_, _)
ProcessFramesUntilError(s, frames) ==
    IF frames = <<>> THEN s
    ELSE IF Head(frames).msg_type = MSG_TELEMETRY
            /\ decode_raises(Head(frames).payload)
    THEN s
    ELSE Then(process_frame(s, Head(frames)),
              LAMBDA t : ProcessFramesUntilError(t, Tail(frames)))

\* for frame in frames: self._process_frame(frame)
RECURSIVE ProcessFrames(_, _)
ProcessFrames(s, frames) ==
    IF frames = <<>> THEN s
    ELSE Then(process_frame(s, Head(frames)),
              LAMBDA t : ProcessFrames(t, Tail(frames)))

\* link_status.crc_errors = the CRC errors of this read only
CrcErrorsOfRead(p) == p.crc_errors - parser.crc_errors

\* link_status.crc_errors = self.parser.crc_errors
CrcErrorsSeen(p) == p.crc_errors

SecondTelemetryFrame ==
    Frame(PROTOCOL_VERSION, MSG_TELEMETRY, 8,
          <<0, 0, 0, 128, 136, 19, 0, 0, 10, 0>>)

\* what one serial.read returns: frames that are not telemetry, a corrupted
\* frame, several frames at once, a frame in two parts, and a telemetry
\* frame behind one that cannot be decoded
RxChunks ==
    { FrameEncode(HeartbeatFrame) \o FrameEncode(OneByteFrame),
      FrameEncode(OneByteFrame) \o FrameEncode(TelemetryFrame),
      FlipBit(FrameEncode(TelemetryFrame), 2 + HEADER_SIZE + 1, 1),
      FrameEncode(SecondTelemetryFrame) \o FrameEncode(HeartbeatFrame)
        \o FrameEncode(TelemetryFrame),
      SubSeq(FrameEncode(SecondTelemetryFrame), 1, HEADER_SIZE),
      SubSeq(FrameEncode(SecondTelemetryFrame), HEADER_SIZE + 1,
             EncodedLen(SecondTelemetryFrame)) }

\* _telemetry_receiver_task: in_waiting > 0, serial.read goes to the
\* executor
ReceiverPoll ==
    /\ gw_receiver = "polling"
    /\ rx_reads < MaxReads
    /\ gw_receiver' = "reading"
    /\ UNCHANGED <<svcVars, backend, gpio_available, busVars, apiVars, gwVars,
                   pwmVars, parserVars, last_telemetry_time, rxData>>

\* _telemetry_receiver_task: serial.read returned data; the frames in it
\* are processed and the CRC error count is copied
ReceiverFeed ==
    /\ gw_receiver = "reading"
    /\ \E data \in RxChunks :
         \E r \in { feed_bytes(parser, data) } :
           \E s \in { ProcessFrames(
                         RxState(last_telemetry, link_frames_received,
                                 link_age_ms, last_telemetry_time,
                                 telemetry_tasks),
                         r.frames) } :
             /\ parser' = r.parser
             /\ rx_frames' = r.frames
             /\ last_telemetry' = s.last_telemetry
             /\ link_frames_received' = s.frames_received
             /\ link_age_ms' = s.age_ms
             /\ last_telemetry_time' = s.last_telemetry_time
             /\ telemetry_tasks' = s.tasks
             /\ publish_tasks' =
                  publish_tasks
                    \o [i \in 1..(s.tasks - telemetry_tasks) |->
                          telemetry_tasks + i]
             /\ link_crc_errors' = CrcErrorsSeen(r.parser)
    /\ rx_reads' = rx_reads + 1
    /\ gw_receiver' = "polling"
    /\ UNCHANGED <<svcVars, backend, gpio_available, busVars, apiVars, gwVars,
                   pwmVars, rx_case, rx_garbage, rx_input, rx_pos, rx_exc,
                   rx_errors>>

\* _telemetry_receiver_task: serial.in_waiting or serial.read raised; the
\* error is logged and the task sleeps for 100 ms
ReceiverReadFail ==
    /\ gw_receiver \in {"polling", "reading"}
    /\ rx_errors < MaxReadErrors
    /\ rx_errors' = rx_errors + 1
    /\ gw_receiver' = "backoff"
    /\ UNCHANGED <<svcVars, backend, gpio_available, busVars, apiVars, gwVars,
                   pwmVars, parserVars, last_telemetry_time, last_telemetry,
                   link_frames_received, link_crc_errors, link_age_ms,
                   telemetry_tasks, publish_tasks, rx_reads>>

\* _telemetry_receiver_task: that sleep is over, the loop goes on
ReceiverResume ==
    /\ gw_receiver = "backoff"
    /\ gw_receiver' = "polling"
    /\ UNCHANGED <<svcVars, backend, gpio_available, busVars, apiVars, gwVars,
                   pwmVars, parserVars, last_telemetry_time, rxData>>

\* ------------------------------------------------------------------------
\* MessageBus: every topic, every subscriber, the statistics
\* ------------------------------------------------------------------------
Topics == {"drive_command", "telemetry"}

\* a message is named by its topic and the number of its publish call
Message(topic, n) == [topic |-> topic, n |-> n]

\* the queues in a list of subscribers
Range(s) == { s[i] : i \in DOMAIN s }

RECURSIVE SumOver(_, _)
SumOver(f, S) ==
    IF S = {} THEN 0
    ELSE LET x == CHOOSE y \in S : TRUE
         IN f[x] + SumOver(f, S \ {x})

\* list.remove(queue): the first occurrence goes; ValueError is passed over
RECURSIVE list_remove(_, _)
list_remove(lst, q) ==
    IF lst = <<>> THEN <<>>
    ELSE IF Head(lst) = q THEN Tail(lst)
    ELSE << Head(lst) >> \o list_remove(Tail(lst), q)

\* MessageBus.__init__
InitBus ==
    /\ bus_subscribers = [t \in Topics |-> <<>>]
    /\ bus_stats = [pub |-> [t \in Topics |-> 0],
                    drop |-> [t \in Topics |-> 0]]
    /\ bus_queues = <<>>
    /\ bus_topic = <<>>
    /\ bus_calls = [publish |-> [t \in Topics |-> 0],
                    full |-> [t \in Topics |-> 0]]
    /\ bus_since = <<>>
    /\ bus_got = <<>>

\* MessageBus.subscribe: a new queue, appended to the topic's list
BusSubscribe ==
    /\ Len(bus_queues) < MaxSubscribes
    /\ \E topic \in Topics :
         /\ bus_subscribers' =
              [bus_subscribers EXCEPT
                 ![topic] = Append(@, Len(bus_queues) + 1)]
         /\ bus_topic' = Append(bus_topic, topic)
    /\ bus_queues' = Append(bus_queues, <<>>)
    /\ bus_since' = Append(bus_since, <<>>)
    /\ bus_got' = Append(bus_got, <<>>)
    /\ UNCHANGED <<bus_stats, bus_calls>>
    /\ UNCHANGED <<shVars, hVars, backend, gpio_available, busVars, apiVars,
                   gwVars, pwmVars, parserVars, rxVars>>

\* MessageBus.unsubscribe, called with any topic and any queue
BusUnsubscribe ==
    /\ \E topic \in Topics, q \in DOMAIN bus_queues :
         bus_subscribers' =
           [bus_subscribers EXCEPT ![topic] = list_remove(@, q)]
    /\ UNCHANGED <<bus_stats, bus_queues, bus_topic, bus_calls, bus_since,
                   bus_got>>
    /\ UNCHANGED <<shVars, hVars, backend, gpio_available, busVars, apiVars,
                   gwVars, pwmVars, parserVars, rxVars>>

\* the loop of publish, stopped by the first full queue
RECURSIVE publish_loop_breaks(_, _, _, _)
publish_loop_breaks(queues, drops, subscribers, message) ==
    IF subscribers = <<>> THEN [queues |-> queues, drops |-> drops]
    ELSE IF Len(queues[Head(subscribers)]) < BusQueueSize
    THEN publish_loop_breaks(
           [queues EXCEPT ![Head(subscribers)] = Append(@, message)],
           drops, Tail(subscribers), message)
    ELSE [queues |-> queues, drops |-> drops + 1]

\* the loop of publish: put_nowait on each queue of the list in turn, a
\* QueueFull counted and passed over
RECURSIVE publish_loop(_, _, _, _)
publish_loop(queues, drops, subscribers, message) ==
    IF subscribers = <<>> THEN [queues |-> queues, drops |-> drops]
    ELSE IF Len(queues[Head(subscribers)]) < BusQueueSize
    THEN publish_loop(
           [queues EXCEPT ![Head(subscribers)] = Append(@, message)],
           drops, Tail(subscribers), message)
    ELSE publish_loop(queues, drops + 1, Tail(subscribers), message)

\* the queues among S that are full
FullAmong(S) == { q \in S : Len(bus_queues[q]) >= BusQueueSize }

\* MessageBus.publish: nothing at all for a topic without subscribers
BusPublish ==
    /\ SumOver(bus_calls.publish, Topics) < MaxPublishes
    /\ \E topic \in Topics :
         LET message == Message(topic, bus_calls.publish[topic] + 1)
             subscribers == bus_subscribers[topic]
             r == publish_loop(bus_queues, bus_stats.drop[topic],
                               subscribers, message)
         IN /\ bus_calls' =
                 [bus_calls EXCEPT
                    !.publish[topic] = @ + 1,
                    !.full[topic] =
                       @ + Cardinality(FullAmong(Range(subscribers)))]
            /\ bus_since' =
                 [q \in DOMAIN bus_since |->
                    IF bus_topic[q] = topic
                    THEN Append(bus_since[q], message) ELSE bus_since[q]]
            /\ IF subscribers = <<>>
               THEN UNCHANGED <<bus_stats, bus_queues>>
               ELSE /\ bus_stats' =
                         [bus_stats EXCEPT !.pub[topic] = @ + 1,
                                           !.drop[topic] = r.drops]
                    /\ bus_queues' = r.queues
    /\ UNCHANGED <<bus_subscribers, bus_topic, bus_got>>
    /\ UNCHANGED <<shVars, hVars, backend, gpio_available, busVars, apiVars,
                   gwVars, pwmVars, parserVars, rxVars>>

\* asyncio.Queue.get of a queue with the oldest message on top
queue_get_newest(q) == [item |-> q[Len(q)], rest |-> SubSeq(q, 1, Len(q) - 1)]

\* asyncio.Queue.get: the oldest message
queue_get(q) == [item |-> Head(q), rest |-> Tail(q)]

\* the owner of a queue takes a message from it
BusGet ==
    /\ \E q \in DOMAIN bus_queues :
         /\ bus_queues[q] # <<>>
         /\ LET g == queue_get(bus_queues[q])
            IN /\ bus_queues' = [bus_queues EXCEPT ![q] = g.rest]
               /\ bus_got' = [bus_got EXCEPT ![q] = Append(@, g.item)]
    /\ UNCHANGED <<bus_subscribers, bus_stats, bus_topic, bus_calls,
                   bus_since>>
    /\ UNCHANGED <<shVars, hVars, backend, gpio_available, busVars, apiVars,
                   gwVars, pwmVars, parserVars, rxVars>>

\* the event loop running the task created last
next_task_newest(tasks) ==
    [item |-> tasks[Len(tasks)], rest |-> SubSeq(tasks, 1, Len(tasks) - 1)]

\* the event loop runs the tasks made by asyncio.create_task in the order
\* of their creation
next_task(tasks) == [item |-> Head(tasks), rest |-> Tail(tasks)]

\* the oldest publish("telemetry", telemetry) task of _process_frame runs:
\* the lock is free, so MessageBus.publish runs to its end in one step
TelemetryPublish ==
    /\ publish_tasks # <<>>
    /\ LET t == next_task(publish_tasks)
           message == Message("telemetry", t.item)
           subscribers == bus_subscribers["telemetry"]
           r == publish_loop(bus_queues, bus_stats.drop["telemetry"],
                             subscribers, message)
       IN /\ publish_tasks' = t.rest
          /\ bus_calls' =
               [bus_calls EXCEPT
                  !.publish["telemetry"] = @ + 1,
                  !.full["telemetry"] =
                     @ + Cardinality(FullAmong(Range(subscribers)))]
          /\ bus_since' =
               [q \in DOMAIN bus_since |->
                  IF bus_topic[q] = "telemetry"
                  THEN Append(bus_since[q], message) ELSE bus_since[q]]
          /\ IF subscribers = <<>>
             THEN UNCHANGED <<bus_stats, bus_queues>>
             ELSE /\ bus_stats' =
                       [bus_stats EXCEPT !.pub["telemetry"] = @ + 1,
                                         !.drop["telemetry"] = r.drops]
                  /\ bus_queues' = r.queues
    /\ UNCHANGED <<bus_subscribers, bus_topic, bus_got>>
    /\ UNCHANGED <<shVars, hVars, backend, gpio_available, busVars, apiVars,
                   gwVars, pwmVars, parserVars, gw_receiver,
                   last_telemetry_time, last_telemetry,
                   link_frames_received, link_crc_errors, link_age_ms,
                   telemetry_tasks, rx_reads, rx_errors>>

\* ------------------------------------------------------------------------
\* Floating-point numbers of the teleop shaper
\*
\* A float is held as an integer count of 2^-FracBits; the representable
\* ones have at most MantissaBits significant bits.  Every arithmetic
\* operation gives the representable number nearest to the exact result, a
\* tie going to the even mantissa, as Python's float does with 53 bits.
\* ------------------------------------------------------------------------
RECURSIVE Pow2(_)
Pow2(n) == IF n = 0 THEN 1 ELSE 2 * Pow2(n - 1)

FloatOne == Pow2(FracBits)

\* mantissas are below this
MantissaLimit == Pow2(MantissaBits)

\* the smallest power of two u with q < u * 2^MantissaBits: the spacing of
\* the representable numbers around q
RECURSIVE UlpFrom(_, _)
UlpFrom(q, u) ==
    IF q < u * MantissaLimit THEN u ELSE UlpFrom(q, 2 * u)

Ulp(q) == UlpFrom(Abs(q), 1)

\* the multiple of u nearest to a / den, a >= 0, a tie to the even multiple
NearestMultiple(a, den, u) ==
    Then(a \div (den * u),
         LAMBDA k :
           IF \/ 2 * (a - k * den * u) > den * u
              \/ (2 * (a - k * den * u) = den * u /\ k % 2 = 1)
           THEN (k + 1) * u ELSE k * u)

\* the float nearest to num / den, den > 0
RoundTo(num, den) ==
    Then(<<num, den>>,
         LAMBDA x :
           Then(Ulp(Abs(x[1]) \div x[2]),
                LAMBDA u :
                  IF x[1] >= 0 THEN NearestMultiple(x[1], x[2], u)
                  ELSE -NearestMultiple(-x[1], x[2], u)))

\* a decimal literal n / 100 of the source or of an input
Literal(n) == RoundTo(n * FloatOne, 100)

\* x + y, x - y, x * y, x / y of two floats
fadd(x, y) == RoundTo(x + y, 1)
fsub(x, y) == RoundTo(x - y, 1)
fmul(x, y) == RoundTo(x * y, FloatOne)
fdiv(x, y) ==
    IF y > 0 THEN RoundTo(x * FloatOne, y) ELSE RoundTo(-x * FloatOne, -y)

\* ------------------------------------------------------------------------
\* TeleopService: the shaper
\* ------------------------------------------------------------------------
\* TeleopService.__init__ defaults
max_speed == Literal(100)
deadband == Literal(5)
slew_rate_per_sec == Literal(200)

apply_deadband(value) ==
    IF Abs(value) < deadband THEN 0
    ELSE LET sign == IF value > 0 THEN 1 ELSE -1
         IN fdiv(sign * fsub(Abs(value), deadband),
                 fsub(FloatOne, deadband))

\* differential_drive without the normalisation
differential_drive_unnormalised(throttle, turn) ==
    [left |-> fadd(throttle, turn), right |-> fsub(throttle, turn)]

differential_drive(throttle, turn) ==
    Then(<<fadd(throttle, turn), fsub(throttle, turn)>>,
         LAMBDA x :
           LET left == x[1]
               right == x[2]
               max_val == Max2(Abs(left), Abs(right))
           IN IF max_val > FloatOne
              THEN [left |-> fdiv(left, max_val),
                    right |-> fdiv(right, max_val)]
              ELSE [left |-> left, right |-> right])

\* max_change taken per call and not per second
slew_max_change_per_call(dt) == slew_rate_per_sec

slew_max_change(dt) == fmul(slew_rate_per_sec, dt)

\* apply_slew that never returns the target itself
apply_slew_no_snap(target, current, dt) ==
    Then(<<slew_max_change(dt), fsub(target, current)>>,
         LAMBDA x :
           LET max_change == x[1]
               error == x[2]
           IN fadd(current, IF error > 0 THEN max_change ELSE -max_change))

apply_slew(target, current, dt) ==
    Then(<<slew_max_change(dt), fsub(target, current)>>,
         LAMBDA x :
           LET max_change == x[1]
               error == x[2]
           IN IF Abs(error) <= max_change THEN target
              ELSE fadd(current,
                        IF error > 0 THEN max_change ELSE -max_change))

\* process_input up to the slew: deadband, mix, scale
ShaperTarget(throttle, turn) ==
    Then(<<apply_deadband(throttle), apply_deadband(turn)>>,
         LAMBDA x :
           Then(differential_drive(x[1], x[2]),
                LAMBDA d : [left |-> fmul(d.left, max_speed),
                            right |-> fmul(d.right, max_speed)]))

\* values of throttle and turn the UI sends, in hundredths
AxisValues == {-100, 0, 3, 100}

\* now - last_update_time of a call, in hundredths of a second
DtValues == {0, 10}

TeleopInputs ==
    { [throttle |-> Literal(th), turn |-> Literal(tu), dt |-> Literal(dt)] :
        th \in AxisValues, tu \in AxisValues, dt \in DtValues }

\* process_input up to the slew, of every input
Targets ==
    [input_cmd \in TeleopInputs |->
       ShaperTarget(input_cmd.throttle, input_cmd.turn)]

\* TeleopService.__init__
InitShaper ==
    /\ current_left = 0
    /\ current_right = 0
    /\ teleop_input = None
    /\ teleop_hold = FALSE

\* process_input: the state after the call is the DriveCommand it returns
process_input(input_cmd) ==
    /\ \E target \in { Targets[input_cmd] } :
         /\ current_left' =
              apply_slew(target.left, current_left, input_cmd.dt)
         /\ current_right' =
              apply_slew(target.right, current_right, input_cmd.dt)
    /\ teleop_input' = Some(input_cmd)

\* _input_subscriber_task: an input arrives and is processed
ShaperInput ==
    /\ ~teleop_hold
    /\ \E input_cmd \in TeleopInputs : process_input(input_cmd)
    /\ UNCHANGED teleop_hold
    /\ UNCHANGED <<mbVars, hVars, backend, gpio_available, busVars, apiVars,
                   gwVars, pwmVars, parserVars, rxVars>>

\* the UI sends the input it sent last, some time after it, from now on
ShaperRepeat ==
    /\ teleop_input # None
    /\ teleop_hold' = TRUE
    /\ \E input_cmd \in TeleopInputs :
         /\ input_cmd.throttle = teleop_input[1].throttle
         /\ input_cmd.turn = teleop_input[1].turn
         /\ input_cmd.dt > 0
         /\ process_input(input_cmd)
    /\ UNCHANGED <<mbVars, hVars, backend, gpio_available, busVars, apiVars,
                   gwVars, pwmVars, parserVars, rxVars>>

\* no bytes are fed to the parser from outside the gateway
NoCase == [kind |-> "none"]

\* HardwareGateway.__init__, the receive path
InitRx ==
    /\ gw_receiver = "none"
    /\ parser = ParserInit
    /\ last_telemetry = None
    /\ link_frames_received = 0
    /\ link_crc_errors = 0
    /\ link_age_ms = 0
    /\ last_telemetry_time = None
    /\ telemetry_tasks = 0
    /\ publish_tasks = <<>>
    /\ rx_reads = 0
    /\ rx_errors = 0
    /\ rx_garbage = <<>>
    /\ rx_pos = 0
    /\ rx_frames = <<>>
    /\ rx_exc = FALSE

\* the backends as constructed
InitCore ==
    /\ backend \in Backends
    /\ gpio_available \in (IF backend = "pi_pwm" THEN BOOLEAN ELSE {TRUE})
    /\ starts = 0
    /\ raised = "none"
    /\ stopPc = "idle"
    /\ subscribed = FALSE
    /\ orphans = 0
    /\ delivered = FALSE
    /\ queue = <<>>
    /\ submitted = None
    /\ gw_running = FALSE
    /\ gw_serial = "none"
    /\ gw_connected = FALSE
    /\ current_drive_cmd = None
    /\ gw_sender = "none"
    /\ gw_subscriber = "none"
    /\ sleep_time = 0
    /\ pending = None
    /\ enc_seq = 0
    /\ frames_sent = 0
    /\ wire = None
    /\ pwm_running = FALSE
    /\ enabled = FALSE
    /\ current_command = None
    /\ last_command_time = None
    /\ gpio = GpioInit
    /\ pwm_listener = "none"
    /\ waited = 0
    /\ InitBus
    /\ InitShaper
    /\ serial_opens = 0

Init ==
    /\ InitCore
    /\ InitRx
    /\ rx_case = NoCase
    /\ rx_input = <<>>

\* the backends, their tasks and the clock
Core ==
    \/ Tick
    \/ UartStart
    \/ UartStopBegin
    \/ UartStopFinish
    \/ UartSubscribe
    \/ UartSubscriberGet
    \/ SenderTick
    \/ SenderWriteOk
    \/ SenderWriteFail
    \/ PwmStart
    \/ PwmStopBegin
    \/ PwmStopFinish
    \/ PwmSubscribe
    \/ PwmListenerGet
    \/ PwmListenerTimeout

\* the deployed system: commands reach the backend over the bus
Next ==
    \/ Core
    \/ Publish

Spec == Init /\ [][Next]_vars

\* the same system with a caller that also hands commands to the controller
\* with send_drive_command
NextApi ==
    \/ Next
    \/ UartSendDriveCommand
    \/ PwmSendDriveCommand

SpecApi == Init /\ [][NextApi]_vars

\* a FrameParser on its own, fed byte by byte
InitParser ==
    /\ InitCore
    /\ backend = "uart"
    /\ InitRx
    /\ rx_case \in ParserCases
    /\ rx_input = CaseInput(rx_case)

NextParser ==
    \/ FeedGarbage
    \/ FeedNext

SpecParser == InitParser /\ [][NextParser]_vars

\* the UART backend with bytes arriving on the serial port and no command
\* published
InitUart == Init /\ backend = "uart"

NextRx ==
    \/ Tick
    \/ UartStart
    \/ UartStopBegin
    \/ UartStopFinish
    \/ UartSubscribe
    \/ SenderTick
    \/ SenderWriteOk
    \/ SenderWriteFail
    \/ ReceiverPoll
    \/ ReceiverFeed

SpecRx == InitUart /\ [][NextRx]_vars

\* a started UART backend whose serial port fails now and then
NextRxErrors ==
    \/ Tick
    \/ UartStart
    \/ SenderTick
    \/ SenderWriteOk
    \/ SenderWriteFail
    \/ ReceiverPoll
    \/ ReceiverFeed
    \/ ReceiverReadFail
    \/ ReceiverResume

SpecRxErrors == InitUart /\ [][NextRxErrors]_vars

\* the receiver of a started UART backend, its publish tasks, and the
\* subscribers of the bus
NextTelemetry ==
    \/ UartStart
    \/ ReceiverPoll
    \/ ReceiverFeed
    \/ TelemetryPublish
    \/ BusSubscribe
    \/ BusGet

SpecTelemetry == InitUart /\ [][NextTelemetry]_vars

\* either backend with all its tasks at work, stopped and started again;
\* the gather of a stop() returns once the cancelled tasks have ended
\* a command is published while the PWM backend is deployed
PwmPublish == backend = "pi_pwm" /\ Publish

NextStop ==
    \/ Tick
    \/ UartStart
    \/ UartStopBegin
    \/ UartStopFinish
    \/ UartSubscribe
    \/ SenderTick
    \/ SenderWriteOk
    \/ ReceiverPoll
    \/ ReceiverFeed
    \/ PwmStart
    \/ PwmStopBegin
    \/ PwmStopFinish
    \/ PwmSubscribe
    \/ PwmListenerGet
    \/ PwmListenerTimeout
    \/ PwmPublish

SpecStop ==
    /\ Init
    /\ [][NextStop]_vars
    /\ WF_vars(UartStopFinish)
    /\ WF_vars(PwmStopFinish)

\* the message bus on its own, with any number of publishers and consumers
NextBus ==
    \/ BusSubscribe
    \/ BusUnsubscribe
    \/ BusPublish
    \/ BusGet

SpecBus == InitUart /\ [][NextBus]_vars

\* the shaper on its own: inputs arrive at any intervals, and from some
\* input on the UI keeps sending the same one
NextShaper ==
    \/ ShaperInput
    \/ ShaperRepeat

SpecShaper == InitUart /\ [][NextShaper]_vars

\* the repetition goes on for ever
SpecShaperRepeat == SpecShaper /\ WF_vars(ShaperRepeat)

\* ------------------------------------------------------------------------
\* Steps and states the properties speak about
\* ------------------------------------------------------------------------
\* the sender took its snapshot and encoded a frame in this step
SenderEncodes == pending = None /\ pending' # None

\* the subscriber of the UART backend dequeued a command in this step
UartDelivers ==
    /\ backend = "uart"
    /\ gw_subscriber = "waiting"
    /\ queue # <<>>
    /\ queue' = Tail(queue)
    /\ subscribed'

\* the listener of the PWM backend dequeued a command in this step
PwmDelivers ==
    /\ backend = "pi_pwm"
    /\ pwm_listener = "waiting"
    /\ queue # <<>>
    /\ queue' = Tail(queue)
    /\ subscribed'

\* wait_for timed out in this step
PwmTimesOut ==
    /\ backend = "pi_pwm"
    /\ pwm_listener = "waiting"
    /\ waited >= PollTimeout
    /\ waited' = 0
    /\ queue' = queue

ZeroSpeed(frame) == frame.left_q15 = 0 /\ frame.right_q15 = 0

HasEstop(frame) == frame.flags % 2 = DRIVE_FLAG_ESTOP

\* what _apply_stop leaves behind
PwmStopped(g, en) ==
    /\ \A p \in DirPins : g.level[p] = "LOW"
    /\ \A sd \in Sides : g.duty[sd] = 0
    /\ ~en

Moving(cmd) ==
    /\ cmd.enable_request
    /\ ~cmd.estop
    /\ cmd.left_speed # 0 \/ cmd.right_speed # 0

\* ------------------------------------------------------------------------
\* C1  UART watchdog.  At every iteration of the sender at which the current
\* command is older than max_command_age, the frame encoded for the port is a
\* DRIVE_CMD with left_q15 = right_q15 = 0 and flags = ENABLE_REQUEST
\* exactly, whatever the stale command held; a frame with a nonzero speed is
\* encoded only from a command no older than max_command_age, and the port
\* receives nothing but the frame of the iteration.
\* ------------------------------------------------------------------------
C1_UartWatchdog ==
    [][ /\ (SenderEncodes /\ current_drive_cmd # None
             /\ current_drive_cmd[1].age > MaxCommandAge)
           => /\ pending'[1].msg_type = MSG_DRIVE_CMD
              /\ ZeroSpeed(pending'[1])
              /\ pending'[1].flags = DRIVE_FLAG_ENABLE_REQUEST
        /\ (SenderEncodes /\ ~ZeroSpeed(pending'[1]))
           => /\ current_drive_cmd # None
              /\ current_drive_cmd[1].age <= MaxCommandAge
        /\ (wire' # wire) => (pending # None /\ wire' = pending)
      ]_vars

\* a stale command with estop set and nonzero speeds was replaced by the
\* safe frame, which reached the port
C1_Witness ==
    /\ backend = "uart"
    /\ current_drive_cmd # None
    /\ current_drive_cmd[1].age > MaxCommandAge
    /\ current_drive_cmd[1].estop
    /\ current_drive_cmd[1].left_speed # 0
    /\ gw_sender = "sleeping"
    /\ sleep_time = CommandPeriod
    /\ wire # None
    /\ ZeroSpeed(wire[1])
    /\ wire[1].flags = DRIVE_FLAG_ENABLE_REQUEST

\* ------------------------------------------------------------------------
\* C2  PWM watchdog.  While the listener runs and some command was applied,
\* once max_command_age plus one poll interval has passed since the last
\* delivery the four direction pins are LOW, both duties are 0 and enabled
\* is false; the motors then stay stopped until the listener dequeues a new
\* message.
\* ------------------------------------------------------------------------
C2_Overdue ==
    /\ backend = "pi_pwm"
    /\ pwm_listener = "waiting"
    /\ current_command # None
    /\ last_command_time # None
    /\ last_command_time[1] >= MaxCommandAge + PollTimeout
    /\ waited < PollTimeout

C2_PwmWatchdog ==
    /\ [](C2_Overdue => PwmStopped(gpio, enabled))
    /\ [][ (backend = "pi_pwm" /\ pwm_listener = "waiting"
             /\ PwmStopped(gpio, enabled) /\ ~PwmDelivers)
           => PwmStopped(gpio', enabled') ]_vars

\* the last command applied asked for motion, and the watchdog stopped it
C2_Witness ==
    /\ C2_Overdue
    /\ Moving(current_command[1])
    /\ pwm_running
    /\ starts = 1
    /\ PwmStopped(gpio, enabled)

\* ------------------------------------------------------------------------
\* C3  The stale rule on every backend, with the age taken from the
\* command's own timestamp: the UART sender encodes no nonzero speed from a
\* command older than max_command_age, and the PWM listener, whenever it
\* runs with a current command older than max_command_age (a command it
\* dequeues already old included), leaves both duties at 0.
\* ------------------------------------------------------------------------
C3_UartPart ==
    (SenderEncodes /\ current_drive_cmd # None
       /\ current_drive_cmd[1].age > MaxCommandAge)
      => ZeroSpeed(pending'[1])

C3_PwmPart ==
    /\ (PwmDelivers /\ gpio_available /\ Head(queue).age > MaxCommandAge)
         => \A sd \in Sides : gpio'.duty[sd] = 0
    /\ (PwmTimesOut /\ gpio_available /\ current_command # None
           /\ current_command[1].age > MaxCommandAge)
         => \A sd \in Sides : gpio'.duty[sd] = 0

C3_StaleRuleEveryBackend == [][C3_UartPart /\ C3_PwmPart]_vars

\* ------------------------------------------------------------------------
\* C4  Boundary of the stale threshold, age taken from the command's own
\* timestamp.  A current command of age at most max_command_age is used
\* unchanged: the UART frame carries its speeds and flags, the PWM timeout
\* branch leaves the pins as they are.  A current command of age
\* max_command_age + 1 is replaced by the safe command: the UART frame is
\* the zero-speed ENABLE_REQUEST frame, the PWM listener leaves the motors
\* stopped.
\* ------------------------------------------------------------------------
C4_UartPart ==
    (SenderEncodes /\ current_drive_cmd # None)
      => LET cmd == current_drive_cmd[1]
         IN IF cmd.age <= MaxCommandAge
            THEN pending'[1] = encode_drive_cmd(enc_seq, cmd.left_speed,
                                                cmd.right_speed,
                                                cmd.enable_request, cmd.estop)
            ELSE /\ ZeroSpeed(pending'[1])
                 /\ pending'[1].flags = DRIVE_FLAG_ENABLE_REQUEST

C4_PwmPart ==
    /\ (PwmTimesOut /\ current_command # None
           /\ current_command[1].age <= MaxCommandAge)
         => (gpio' = gpio /\ enabled' = enabled)
    /\ (PwmTimesOut /\ gpio_available /\ current_command # None
           /\ current_command[1].age = MaxCommandAge + 1)
         => PwmStopped(gpio', enabled')
    /\ (PwmDelivers /\ gpio_available
           /\ Head(queue).age = MaxCommandAge + 1)
         => PwmStopped(gpio', enabled')

C4_ThresholdBoundary == [][C4_UartPart /\ C4_PwmPart]_vars

\* ------------------------------------------------------------------------
\* C5  stop() leaves the hardware stopped.  When stop() returns on a PWM
\* backend whose pins were set up, the four direction pins are LOW and both
\* duties are 0; when it returns on a UART backend whose port was open, the
\* last frame the port received is a STOP_CMD or commands zero speed on both
\* sides.
\* ------------------------------------------------------------------------
StopReturns == stopPc = "gathering" /\ stopPc' = "idle"

C5_PwmPart ==
    (StopReturns /\ backend = "pi_pwm" /\ gpio_available
       /\ \A p \in Pins : gpio.mode[p] = "out")
      => /\ \A p \in DirPins : gpio'.level[p] = "LOW"
         /\ \A sd \in Sides : gpio'.duty[sd] = 0

C5_UartPart ==
    (StopReturns /\ backend = "uart" /\ gw_serial = "open" /\ wire # None)
      => \/ wire'[1].msg_type = MSG_STOP_CMD
         \/ ZeroSpeed(wire'[1])

C5_StopStopsHardware == [][C5_PwmPart /\ C5_UartPart]_vars

\* ------------------------------------------------------------------------
\* C6  stop() is idempotent.  A stop() on a backend that is not running, has
\* no live task and holds no hardware (after a first stop(), or with no
\* start() before it) changes no backend state, actuates nothing, and
\* returns without an error.
\* ------------------------------------------------------------------------
UartIdle ==
    /\ backend = "uart"
    /\ ~gw_running
    /\ ~TaskAlive(gw_sender)
    /\ ~TaskAlive(gw_subscriber)
    /\ gw_serial # "open"
    /\ ~gw_connected

PwmIdle ==
    /\ backend = "pi_pwm"
    /\ ~pwm_running
    /\ ~TaskAlive(pwm_listener)
    /\ \A p \in Pins : gpio.mode[p] = "unset"

StopStep == stopPc' # stopPc

C6_UartPart ==
    (StopStep /\ UartIdle)
      => /\ UNCHANGED <<gw_running, gw_serial, gw_connected,
                        current_drive_cmd, gw_sender, gw_subscriber, pending,
                        enc_seq, frames_sent, wire, subscribed, queue,
                        orphans>>
         /\ StopReturns => raised' = "none"

C6_PwmPart ==
    (StopStep /\ PwmIdle)
      => /\ UNCHANGED <<pwm_running, enabled, current_command,
                        last_command_time, gpio, subscribed, queue, orphans>>
         /\ ~TaskAlive(pwm_listener')
         /\ StopReturns => raised' = "none"

C7_UartPart ==
    (SenderEncodes /\ ~delivered)
      => /\ pending'[1].msg_type = MSG_DRIVE_CMD
         /\ ZeroSpeed(pending'[1])
         /\ ~HasEstop(pending'[1])

C7_PwmPart ==
    /\ gpio.order_ok
    /\ (backend = "pi_pwm" /\ gpio_available /\ pwm_running /\ ~delivered)
         => /\ \A p \in Pins : gpio.mode[p] = "out"
            /\ \A p \in DirPins : gpio.level[p] = "LOW"
            /\ \A sd \in Sides : gpio.pwm[sd] = "running"
            /\ \A sd \in Sides : gpio.duty[sd] = 0

C7_RestAfterStart == []C7_PwmPart /\ [][C7_UartPart]_vars

\* ------------------------------------------------------------------------
\* C8  send_drive_command on a started backend raises nothing and leaves the
\* current-command slot equal to its argument; a command that reaches a
\* backend over the bus replaces the slot as well.  The slot holds one
\* command, the last one.
\* ------------------------------------------------------------------------
C8_SubmitReplaces ==
    [][ /\ raised' # "AttributeError"
        /\ UartDelivers => current_drive_cmd' = Some(Head(queue))
        /\ PwmDelivers => current_command' = Some(Head(queue))
        /\ (backend = "pi_pwm" /\ submitted' # None)
             => current_command' = submitted'
      ]_vars

\* ------------------------------------------------------------------------
\* C9  Delivering to a backend the command its slot already holds changes
\* nothing in the backend: the slot, the pins and the time from which the
\* watchdog measures staleness stay as they are.
\* ------------------------------------------------------------------------
C9_UartPart ==
    (UartDelivers /\ current_drive_cmd = Some(Head(queue)))
      => UNCHANGED <<gw_running, gw_serial, gw_connected, current_drive_cmd,
                     gw_sender, gw_subscriber, sleep_time, pending, enc_seq,
                     frames_sent, wire>>

C9_PwmPart ==
    (PwmDelivers /\ current_command = Some(Head(queue)))
      => UNCHANGED <<pwm_running, enabled, current_command,
                     last_command_time, gpio>>

C9_SubmitIdempotent == [][C9_UartPart /\ C9_PwmPart]_vars

\* ------------------------------------------------------------------------
\* C10  Emergency stop.  A frame the UART sender encodes while the current
\* command has estop set and is not stale is a DRIVE_CMD with the ESTOP bit
\* set.  The PWM listener, on dequeuing a command with estop set, leaves the
\* four direction pins LOW, both duties 0 and enabled false, whatever the
\* speeds of the command.
\* ------------------------------------------------------------------------
C10_UartPart ==
    (SenderEncodes /\ current_drive_cmd # None /\ current_drive_cmd[1].estop
       /\ current_drive_cmd[1].age <= MaxCommandAge)
      => /\ pending'[1].msg_type = MSG_DRIVE_CMD
         /\ HasEstop(pending'[1])

C10_PwmPart ==
    (PwmDelivers /\ Head(queue).estop)
      => PwmStopped(gpio', enabled')

Consumed ==
    rx_garbage \o SubSeq(rx_input, 1, rx_pos)

\* the last n bytes of s
LastBytes(s, n) == SubSeq(s, Len(s) - n + 1, Len(s))

\* feed_byte returned a Frame
Emits == rx_frames' # rx_frames

\* the Frame feed_byte returned
Emitted == rx_frames'[Len(rx_frames')]

\* no write of the next feed_byte falls outside its buffer
IndicesInRange ==
    /\ parser.header_idx <= HEADER_SIZE
    /\ parser.payload_idx <= parser.payload_len
    /\ parser.payload_len <= PAYLOAD_BUF_SIZE
    /\ parser.crc_idx <= CRC_SIZE
    /\ parser.state = "READING_HEADER" => parser.header_idx < HEADER_SIZE
    /\ parser.state = "READING_PAYLOAD" =>
         parser.payload_idx < parser.payload_len
    /\ parser.state = "READING_CRC" => parser.crc_idx < CRC_SIZE

\* f is a frame of this protocol version whose CRC over header and payload
\* is the CRC received in crc_buf, and its encoding is what was fed last
WellFormed(f, p, fed) ==
    Then(FrameEncode(f),
         LAMBDA enc :
           /\ f.version = PROTOCOL_VERSION
           /\ Len(f.payload) <= PAYLOAD_BUF_SIZE
           /\ LastBytes(enc, CRC_SIZE) = p.crc_buf
           /\ Len(fed) >= Len(enc)
           /\ LastBytes(fed, Len(enc)) = enc)

C11_Step ==
    /\ IndicesInRange
    /\ ~rx_exc'
    /\ Emits => \A f \in {Emitted}, p \in {parser'}, fed \in {Consumed'} :
                  WellFormed(f, p, fed)

\* C11: whatever bytes are fed to the parser, one at a time and from any
\* state it can reach, feed_byte never raises (header_idx < 4, payload_idx <
\* payload_len <= 255 and crc_idx < 2 hold before the write of each state),
\* and every Frame it returns has version 1 and a CRC-16/CCITT-FALSE over
\* version, msg_type, seq, len and payload equal to the two CRC bytes
\* received, low byte first.
C11_ParserSafe == [][C11_Step]_vars

\* the 255-byte frame was returned after garbage
C11_Witness ==
    /\ rx_garbage # <<>>
    /\ rx_pos = Len(rx_input)
    /\ rx_frames = <<LongFrame>>
    /\ parser.payload_idx = PAYLOAD_BUF_SIZE

\* the case is the encoding of one frame, fed to a parser as constructed
FreshRoundTrip ==
    /\ rx_case.kind = "frame"
    /\ rx_case.g = <<>>
    /\ rx_garbage = <<>>

\* the header and payload bytes of an encoded frame
CrcData(enc) == SubSeq(enc, 3, Len(enc) - CRC_SIZE)

\* C12: the encoding of a frame with version 1 (any msg_type, seq, payload
\* of 0..255 bytes), fed to a fresh parser, returns exactly one Frame, equal
\* to the encoded one, and returns it on the last byte and not before; the
\* last two bytes of the encoding are the CRC-16/CCITT-FALSE of header and
\* payload, low byte first.
C12_RoundTrip ==
    FreshRoundTrip =>
      /\ rx_pos < Len(rx_input) => rx_frames = <<>>
      /\ rx_pos = Len(rx_input) =>
           /\ rx_frames = << rx_case.f >>
           /\ Then(crc16_ccitt(CrcData(rx_input)),
                   LAMBDA crc :
                     LastBytes(rx_input, CRC_SIZE)
                       = << crc % BYTE_MOD, crc \div BYTE_MOD >>)

\* the 255-byte frame came back from a fresh parser
C12_Witness ==
    /\ FreshRoundTrip
    /\ rx_case.f = LongFrame
    /\ rx_pos = Len(rx_input)
    /\ rx_frames = <<LongFrame>>
    /\ parser.frames_received = 1

\* everything fed ahead of the frame of a "frame" case
G == rx_garbage \o rx_case.g

\* the frame of a "frame" case was fed whole
FrameFed == rx_case.kind = "frame" /\ rx_pos = Len(rx_input)

\* C13 as stated: whatever bytes G precede the encoding of a valid frame
\* f, a fresh parser fed G and then encode(f) returns exactly [f].
C13_GarbageRoundTrip == FrameFed => rx_frames = << rx_case.f >>

\* C13, amended: for every byte sequence G that leaves a fresh parser in
\* SCANNING_SOF, feeding encode(f) next returns exactly one more frame,
\* equal to f, on its last byte: the frames returned are those returned
\* for G, followed by f.
C13_Relock ==
    rx_case.kind = "frame" /\ rx_pos >= Len(rx_case.g) =>
      Then(feed_bytes(ParserInit, G),
           LAMBDA g :
             g.parser.state = "SCANNING_SOF" /\ ~g.exc =>
               /\ ~rx_exc
               /\ rx_pos < Len(rx_input) => rx_frames = g.frames
               /\ rx_pos = Len(rx_input) =>
                    rx_frames = Append(g.frames, rx_case.f))

\* a frame came back after bytes that hold a whole frame of their own
C13_Witness ==
    /\ FrameFed
    /\ rx_garbage # <<>>
    /\ rx_case.g = FrameEncode(HeartbeatFrame)
    /\ rx_frames = << HeartbeatFrame, rx_case.f >>

\* SOF_BYTE_0, SOF_BYTE_1 never occur next to each other in s
NoSofPair(s) ==
    \A i \in 1..(Len(s) - 1) : ~(s[i] = SOF_BYTE_0 /\ s[i + 1] = SOF_BYTE_1)

\* from parser p0, the bytes of the case so far returned no frame, or just
\* the frame of the case once it was fed whole, and counted no error
OneFrameNoError(p0) ==
    /\ ~rx_exc
    /\ rx_frames = IF rx_pos = Len(rx_input) THEN << rx_case.f >> ELSE <<>>
    /\ parser.crc_errors = p0.crc_errors
    /\ parser.version_errors = p0.version_errors

\* C14 as stated: for every G without an adjacent 0xAA, 0x55 (G may end in
\* 0xAA bytes), G followed by encode(f), fed to a parser in SCANNING_SOF,
\* returns exactly one frame, equal to f, and no error counter changes.
C14_AnyScanningParser ==
    rx_case.kind = "frame" /\ NoSofPair(rx_case.g) =>
      Then(feed_bytes(ParserInit, rx_garbage).parser,
           LAMBDA p0 : p0.state = "SCANNING_SOF" => OneFrameNoError(p0))

\* C14, amended: the same for a parser that is fresh, or in SCANNING_SOF
\* with a last scanned byte other than 0xAA.
C14_SlidingWindow ==
    rx_case.kind = "frame" /\ NoSofPair(rx_case.g) =>
      Then(feed_bytes(ParserInit, rx_garbage).parser,
           LAMBDA p0 :
             p0.state = "SCANNING_SOF" /\ p0.sof_buf[2] # SOF_BYTE_0 =>
               OneFrameNoError(p0))

\* the telemetry frame came back after two 0xAA bytes, from a parser that
\* had scanned other bytes before
C14_Witness ==
    /\ FrameFed
    /\ rx_garbage = <<0, SOF_BYTE_1>>
    /\ rx_case.g = <<SOF_BYTE_0, SOF_BYTE_0>>
    /\ rx_frames = <<TelemetryFrame>>
    /\ parser.version_errors = 0
    /\ parser.crc_errors = 0

\* C15: a valid encoded frame with exactly one payload bit toggled, fed to
\* a parser in SCANNING_SOF, returns no frame and raises crc_errors by
\* exactly one, on its last byte (version_errors and frames_received keep
\* their values); a valid frame fed right after it is returned intact.
C15_BitFlip ==
    rx_case.kind = "flip" =>
      Then(feed_bytes(ParserInit, rx_garbage).parser,
           LAMBDA p0 :
             p0.state = "SCANNING_SOF" =>
               /\ ~rx_exc
               /\ parser.version_errors = p0.version_errors
               /\ parser.crc_errors =
                    IF rx_pos < EncodedLen(rx_case.f) THEN p0.crc_errors
                    ELSE p0.crc_errors + 1
               /\ rx_pos = EncodedLen(rx_case.f) =>
                    parser.state = "SCANNING_SOF"
               /\ rx_pos < Len(rx_input) =>
                    /\ rx_frames = <<>>
                    /\ parser.frames_received = p0.frames_received
               /\ rx_pos = Len(rx_input) =>
                    /\ rx_frames = << rx_case.f2 >>
                    /\ parser.frames_received = p0.frames_received + 1)

\* the top bit of the second telemetry byte was toggled; the frame after
\* it came back
C15_Witness ==
    /\ rx_case.kind = "flip"
    /\ rx_case.f = TelemetryFrame
    /\ rx_case.at = 2
    /\ rx_case.mask = 128
    /\ rx_garbage = <<SOF_BYTE_0>>
    /\ rx_pos = Len(rx_input)
    /\ rx_frames = << rx_case.f2 >>
    /\ parser.crc_errors = 1

\* the byte being fed is the fourth of a header whose version is not
\* PROTOCOL_VERSION
VersionReject ==
    /\ parser.state = "READING_HEADER"
    /\ parser.header_idx = HEADER_SIZE - 1
    /\ parser.header_buf[1] # PROTOCOL_VERSION

\* the byte being fed is the second CRC byte, and the CRC received differs
\* from the CRC of the header and payload read
CrcReject ==
    /\ parser.state = "READING_CRC"
    /\ parser.crc_idx = CRC_SIZE - 1
    /\ Then(crc16_ccitt(parser.header_buf
                          \o BufSlice(parser.payload_buf,
                                      parser.payload_len)),
            LAMBDA crc :
              crc # parser.crc_buf[1] + parser'.crc_buf[2] * BYTE_MOD)

\* feed_byte returned None and the parser scans again; the byte it keeps
\* in its window cannot start a start-of-frame
BackToScanning ==
    /\ ~Emits
    /\ ~rx_exc'
    /\ parser'.state = "SCANNING_SOF"
    /\ parser'.sof_buf[2] # SOF_BYTE_0
    /\ parser'.frames_received = parser.frames_received

\* the frame that starts inside a rejected header, or whose first byte was
\* read as a CRC byte, is not returned
NoLookInside ==
    rx_case'.kind \in {"nested", "crctail"} /\ rx_garbage' = <<>> =>
      rx_frames' = <<>>

C16_Step ==
    /\ VersionReject =>
         /\ BackToScanning
         /\ parser'.version_errors = parser.version_errors + 1
         /\ parser'.crc_errors = parser.crc_errors
    /\ CrcReject =>
         /\ BackToScanning
         /\ parser'.crc_errors = parser.crc_errors + 1
         /\ parser'.version_errors = parser.version_errors
    /\ parser'.version_errors # parser.version_errors => VersionReject
    /\ parser'.crc_errors # parser.crc_errors => CrcReject
    /\ NoLookInside

\* C16: a header whose version byte is not 1 raises version_errors by one
\* on the fourth header byte, a CRC mismatch raises crc_errors by one on
\* the second CRC byte, and neither counter changes on any other byte; in
\* both cases feed_byte returns no frame, the other counters keep their
\* values, the parser is in SCANNING_SOF right afterwards, and no byte
\* consumed before is looked at again for a start-of-frame.
C16_Rejection == [][C16_Step]_vars

\* a header was rejected for its version, the next frame for its CRC, and
\* the frame whose first byte was that frame's last CRC byte did not come
\* back
C16_Witness ==
    /\ rx_case.kind = "crctail"
    /\ rx_garbage = <<>>
    /\ rx_pos = Len(rx_input)
    /\ parser.version_errors = 1
    /\ parser.crc_errors = 1
    /\ parser.state = "SCANNING_SOF"
    /\ rx_frames = <<>>

\* ------------------------------------------------------------------------
\* Sequence numbers and the Q15 mapping (Spec)
\* ------------------------------------------------------------------------
\* a frame reached the serial port
Written == wire' # wire

\* C17: the frames written to the serial port carry seq 0 first and then a
\* seq one higher, modulo 256, than the frame written before, in the order
\* of their ticks, whatever the interleaving of tasks and whichever writes
\* fail.
C17_SeqPerSentFrame ==
    [][Written =>
         wire'[1].seq = IF wire = None THEN 0
                        ELSE (wire[1].seq + 1) % SEQ_MOD]_vars

\* Python round() of n / d, d > 0: the nearest integer, a tie to the even one
RoundDiv(n, d) ==
    LET a == Abs(n)
        q == a \div d
        r == a % d
        up == 2 * r > d \/ (2 * r = d /\ q % 2 = 1)
        m == IF up THEN q + 1 ELSE q
    IN IF n >= 0 THEN m ELSE -m

\* q15 is the rounded image of speed x, within range, and converts back to
\* within 1/Q15_MAX of the clamped x
RoundedQ15(q15, x) ==
    /\ q15 = RoundDiv(Clamp(x) * Q15_MAX, SpeedScale)
    /\ q15 >= -Q15_MAX
    /\ q15 <= Q15_MAX
    /\ Abs(q15 * SpeedScale - Clamp(x) * Q15_MAX) <= SpeedScale

\* C18: the DRIVE_CMD payload carries, for each speed x, the value
\* round(clamp(x, -1, 1) * 32767), which lies in -32767..32767 (0.8 gives
\* 26214) and, divided by 32767, differs from the clamped x by at most
\* 1/32767.
C18_Q15Rounds ==
    [][SenderEncodes =>
         LET cmd == SelectCommand(current_drive_cmd)
         IN /\ RoundedQ15(pending'[1].left_q15, cmd.left_speed)
            /\ RoundedQ15(pending'[1].right_q15, cmd.right_speed)]_vars

\* ------------------------------------------------------------------------
\* The receive path and the link counters (SpecRx)
\* ------------------------------------------------------------------------
\* a serial.read returned and its bytes went through the parser
Received == rx_reads' = rx_reads + 1

\* the frames among fs that _process_frame takes as telemetry
RECURSIVE TelemetryIn(_)
TelemetryIn(fs) ==
    IF fs = <<>> THEN <<>>
    ELSE (IF Head(fs).msg_type = MSG_TELEMETRY
             /\ Len(Head(fs).payload) = TELEMETRY_SIZE
          THEN << Head(fs) >> ELSE <<>>) \o TelemetryIn(Tail(fs))

\* the values of a 10-byte telemetry payload
Values(data) ==
    [left_pwm |-> S16(data[1], data[2]),
     right_pwm |-> S16(data[3], data[4]),
     bus_voltage_mv |-> U16(data[5], data[6]),
     fault_flags |-> U16(data[7], data[8]),
     age_ms |-> U16(data[9], data[10])]

C19_Step ==
    Received =>
      \A t \in { TelemetryIn(rx_frames') } :
        /\ link_frames_received' = link_frames_received + Len(t)
        /\ telemetry_tasks' = telemetry_tasks + Len(t)
        /\ t = <<>> =>
             /\ last_telemetry' = last_telemetry
             /\ link_age_ms' = link_age_ms
             /\ last_telemetry_time' = last_telemetry_time
        /\ t # <<>> =>
             /\ last_telemetry' = Some(Values(t[Len(t)].payload))
             /\ link_age_ms' = Values(t[Len(t)].payload).age_ms
             /\ last_telemetry_time' = Some(0)

\* C19: of the frames the parser returns for a read, each TELEMETRY frame
\* with a 10-byte payload sets last_telemetry to the decoded values, sets
\* link_status.age_ms and last_telemetry_time, raises
\* link_status.frames_received by exactly one and publishes exactly one
\* message on topic telemetry; a frame of another msg_type, or a TELEMETRY
\* frame with a payload of another length, changes none of them and
\* publishes nothing.
C19_Dispatch == [][C19_Step]_vars

\* one read returned two telemetry frames around a heartbeat, after a read
\* that held a heartbeat and a one-byte TELEMETRY frame: two frames
\* counted, two messages published, the values of the later frame kept
C19_Witness ==
    /\ rx_reads = 2
    /\ rx_frames = << SecondTelemetryFrame, HeartbeatFrame, TelemetryFrame >>
    /\ parser.frames_received = 5
    /\ link_frames_received = 2
    /\ telemetry_tasks = 2
    /\ last_telemetry = Some([left_pwm |-> 10000, right_pwm |-> -10000,
                               bus_voltage_mv |-> 12000, fault_flags |-> 65,
                               age_ms |-> 261])
    /\ link_age_ms = 261
    /\ last_telemetry_time = Some(0)

C20_Step ==
    /\ frames_sent' >= frames_sent
    /\ link_frames_received' >= link_frames_received
    /\ link_crc_errors' >= link_crc_errors
    /\ frames_sent' # frames_sent =>
         /\ frames_sent' = frames_sent + 1
         /\ gw_sender = "writing"
         /\ pending # None
         /\ wire' = pending

\* C20: over start, stop, restart, sender ticks, failed writes and
\* received bytes, frames_sent, frames_received and crc_errors of the link
\* status never decrease, and frames_sent grows, by one, only when the
\* write of a frame succeeded.
C20_CountersMonotonic == [][C20_Step]_vars

\* after a restart every counter has grown
C20_Witness ==
    /\ starts = 2
    /\ gw_running
    /\ frames_sent >= 2
    /\ link_frames_received >= 1
    /\ link_crc_errors >= 1
    /\ enc_seq > frames_sent

\* ------------------------------------------------------------------------
\* A failed start of the UART backend (Spec)
\* ------------------------------------------------------------------------
\* UartMotorController.start raised the SerialException of an open
StartFails ==
    /\ backend = "uart"
    /\ starts' = starts + 1
    /\ raised' = "SerialException"

\* the gateway is as constructed or as stop() left it
NotStarted(running, sender, receiver, subscriber, connected) ==
    /\ ~running
    /\ ~TaskAlive(sender)
    /\ ~TaskAlive(receiver)
    /\ ~TaskAlive(subscriber)
    /\ ~connected

\* C21: a serial port open failure during start() of the UART backend
\* reaches the caller of start() and leaves the backend not started:
\* running is false, no sender, receiver or subscriber task was spawned,
\* link_status.connected is false and no frame was written.
C21_FailedStart ==
    [][StartFails =>
         /\ NotStarted(gw_running', gw_sender', gw_receiver', gw_subscriber',
                       gw_connected')
         /\ wire' = wire
         /\ frames_sent' = frames_sent
         /\ pending' = None]_vars

\* ------------------------------------------------------------------------
\* The message bus (SpecBus)
\* ------------------------------------------------------------------------
\* publish was called on topic in this step
Publishes(topic) ==
    bus_calls'.publish[topic] = bus_calls.publish[topic] + 1

\* the message of that call
Published(topic) == Message(topic, bus_calls'.publish[topic])

C22_Step ==
    /\ \A q \in DOMAIN bus_queues' : Len(bus_queues'[q]) <= BusQueueSize
    /\ \A topic \in Topics :
         Publishes(topic) =>
           /\ \A q \in DOMAIN bus_queues :
                bus_queues'[q] =
                  IF q \in Range(bus_subscribers[topic])
                     /\ Len(bus_queues[q]) < BusQueueSize
                  THEN Append(bus_queues[q], Published(topic))
                  ELSE bus_queues[q]
           /\ bus_stats'.drop[topic] =
                bus_stats.drop[topic]
                  + Cardinality(FullAmong(Range(bus_subscribers[topic])))
           /\ \A other \in Topics \ {topic} :
                bus_stats'.drop[other] = bus_stats.drop[other]

\* C22: publish is one step that waits for no subscriber and never makes a
\* queue longer than the capacity the bus was constructed with; a
\* subscriber whose queue is full at publish time keeps its queue as it
\* was and raises the topic's drop counter by one, and every other
\* subscriber of the topic whose queue is not full gets the message
\* appended; queues of other topics and their drop counters do not change.
C22_DropNewest == [][C22_Step]_vars

\* two subscribers of one topic: the first has its queue full of the two
\* oldest messages and missed the third, which the second one holds
C22_Witness ==
    /\ Len(bus_queues) >= 2
    /\ bus_subscribers["drive_command"] = <<1, 2>>
    /\ bus_queues[1] = << Message("drive_command", 1),
                          Message("drive_command", 2) >>
    /\ bus_queues[2] = << Message("drive_command", 2),
                          Message("drive_command", 3) >>
    /\ bus_stats.drop["drive_command"] = 1
    /\ bus_stats.drop["telemetry"] = 0

\* a is b with some of its elements left out
RECURSIVE IsSubseq(_, _)
IsSubseq(a, b) ==
    IF a = <<>> THEN TRUE
    ELSE IF b = <<>> THEN FALSE
    ELSE IF Head(a) = Head(b) THEN IsSubseq(Tail(a), Tail(b))
    ELSE IsSubseq(a, Tail(b))

\* no element of s occurs twice
NoRepeat(s) == \A i, j \in DOMAIN s : s[i] = s[j] => i = j

\* C23: whatever the interleaving of subscribe, unsubscribe, publish and
\* dequeue, the messages a subscriber has dequeued are, in the same order,
\* some of the messages published on its topic since it subscribed; none
\* of them came twice and none was published on another topic.
C23_Fifo ==
    \A q \in DOMAIN bus_got :
      /\ IsSubseq(bus_got[q], bus_since[q])
      /\ NoRepeat(bus_got[q])
      /\ \A i \in DOMAIN bus_got[q] : bus_got[q][i].topic = bus_topic[q]

\* a subscriber of drive_command that lost the third of four messages to
\* a full queue has dequeued the other three, while telemetry has a
\* subscriber too
C23_Witness ==
    /\ \E q \in DOMAIN bus_got :
         /\ bus_topic[q] = "drive_command"
         /\ bus_since[q] = << Message("drive_command", 1),
                              Message("drive_command", 2),
                              Message("drive_command", 3),
                              Message("drive_command", 4) >>
         /\ bus_got[q] = << Message("drive_command", 1),
                            Message("drive_command", 2),
                            Message("drive_command", 4) >>
    /\ \E q \in DOMAIN bus_got : bus_topic[q] = "telemetry"

\* C24: after any sequence of subscribe, unsubscribe and publish calls the
\* pub_ count of a topic is the number of publish calls made on it, and
\* its drop_ count is the number of (publish, subscriber) pairs in which
\* the subscriber's queue was full.
C24_Stats ==
    \A topic \in Topics :
      /\ bus_stats.pub[topic] = bus_calls.publish[topic]
      /\ bus_stats.drop[topic] = bus_calls.full[topic]

\* ------------------------------------------------------------------------
\* The teleop shaper (SpecShaper, SpecShaperRepeat)
\* ------------------------------------------------------------------------
\* C25: whatever inputs with |throttle| <= 1 and |turn| <= 1 arrive, and
\* whatever the times between them, both speeds of every DriveCommand
\* process_input returns are within max_speed of zero.
C25_OutputBound ==
    /\ Abs(current_left) <= max_speed
    /\ Abs(current_right) <= max_speed

\* full throttle with full turn was normalised: the left side is at
\* max_speed and the right side stands
C25_Witness ==
    /\ teleop_input # None
    /\ teleop_input[1].throttle = FloatOne
    /\ teleop_input[1].turn = FloatOne
    /\ current_left = max_speed
    /\ current_right = 0

\* the target of the input processed last
LastTarget == Targets[teleop_input[1]]

\* b lies between a and c, ends included
Between(a, b, c) == (a <= b /\ b <= c) \/ (c <= b /\ b <= a)

\* an axis went from prev to new, towards target, by no more than
\* slew_rate_per_sec * dt + eps
SlewStep(prev, new, target, dt, eps) ==
    /\ Abs(new - prev) * FloatOne <= slew_rate_per_sec * dt + eps * FloatOne
    /\ Between(prev, new, target)

\* process_input was called in this step
Processes ==
    /\ teleop_input' # None
    /\ <<current_left', current_right'>> # <<current_left, current_right>>

\* C26 as stated: between two successive outputs separated by dt, each axis
\* changes by at most slew_rate * dt, and the new value lies between the
\* previous value and the new target.
C26_SlewBoundExact ==
    [][Processes =>
         \A target \in { Targets[teleop_input'[1]] } :
           /\ SlewStep(current_left, current_left', target.left,
                       teleop_input'[1].dt, 0)
           /\ SlewStep(current_right, current_right', target.right,
                       teleop_input'[1].dt, 0)]_vars

\* the rounding error an addition or subtraction of a and b can have
Eps(a, b) == Ulp(Max2(Abs(a), Abs(b)))

\* C26, amended: each axis changes by at most slew_rate * dt plus the
\* rounding error of one floating-point operation on the two values, and
\* the new value lies between the previous value and the new target.
C26_SlewBound ==
    [][Processes =>
         \A target \in { Targets[teleop_input'[1]] } :
           /\ SlewStep(current_left, current_left', target.left,
                       teleop_input'[1].dt,
                       Eps(current_left, current_left'))
           /\ SlewStep(current_right, current_right', target.right,
                       teleop_input'[1].dt,
                       Eps(current_right, current_right'))]_vars

\* both axes are under way to different targets, short of them
C26_Witness ==
    /\ teleop_input # None
    /\ teleop_input[1].dt > 0
    /\ current_left > 0
    /\ current_left < LastTarget.left
    /\ current_right < 0
    /\ current_right > LastTarget.right

\* both axes are at the target of the repeated input; for throttle 0 and
\* turn 1 that is 1.0 and -1.0
AtTarget ==
    /\ teleop_input # None
    /\ current_left = LastTarget.left
    /\ current_right = LastTarget.right
    /\ teleop_input[1].throttle = 0 /\ teleop_input[1].turn = FloatOne =>
         current_left = FloatOne /\ current_right = -FloatOne

\* C27: once the same input is repeated at positive intervals, both axes
\* reach exactly the target of that input after finitely many inputs and
\* stay there for every later one; for throttle 0, turn 1 and max_speed 1
\* the final command is left 1.0, right -1.0.
C27_Convergence == [](teleop_hold => <>[]AtTarget)

\* the spin input was repeated and the command is 1.0, -1.0
C27_Witness ==
    /\ teleop_hold
    /\ teleop_input[1].throttle = 0
    /\ teleop_input[1].turn = FloatOne
    /\ current_left = FloatOne
    /\ current_right = -FloatOne

\* ------------------------------------------------------------------------
\* Transient errors of the serial port (SpecRxErrors)
\* ------------------------------------------------------------------------
\* serial.write raised in this step
WriteFails ==
    /\ gw_sender = "writing"
    /\ gw_sender' = "sleeping"
    /\ frames_sent' = frames_sent

\* serial.in_waiting or serial.read raised in this step
ReadFails == rx_errors' = rx_errors + 1

\* a read returned a TELEMETRY frame that decode rejects
DecodeFails ==
    /\ Received
    /\ \E i \in DOMAIN rx_frames' :
         /\ rx_frames'[i].msg_type = MSG_TELEMETRY
         /\ decode_raises(rx_frames'[i].payload)

\* the gateway runs on with the link status it had
StillRunning ==
    /\ gw_running
    /\ gw_running'
    /\ gw_connected' = gw_connected
    /\ TaskAlive(gw_sender')
    /\ TaskAlive(gw_receiver')
    /\ TaskAlive(gw_subscriber')

C28_Step ==
    /\ WriteFails =>
         /\ StillRunning
         /\ sleep_time' = sleep_time
         /\ sleep_time' <= CommandPeriod
         /\ enc_seq' = enc_seq
         /\ gw_receiver' = gw_receiver
    /\ ReadFails =>
         /\ StillRunning
         /\ gw_receiver' = "backoff"
         /\ parser' = parser
         /\ gw_sender' = gw_sender
    /\ gw_receiver = "backoff" /\ gw_receiver' # "backoff" =>
         /\ StillRunning
         /\ gw_receiver' = "polling"
    /\ DecodeFails =>
         /\ StillRunning
         /\ gw_receiver' = "polling"
         /\ \A t \in { TelemetryIn(rx_frames') } :
              /\ link_frames_received' = link_frames_received + Len(t)
              /\ t # <<>> =>
                   last_telemetry' = Some(Values(t[Len(t)].payload))

\* C28: a failed serial write leaves the sender task asleep for the rest
\* of its period, from where it ticks again; a failed serial read leaves
\* the receiver task in its backoff sleep, from where it polls again with
\* the parser as it was; a telemetry frame that cannot be decoded does not
\* keep the frames behind it in the same read from being processed.  In
\* each case running stays true, the three tasks stay alive and
\* link_status.connected keeps its value.
C28_TasksSurvive == [][C28_Step]_vars

\* the first write failed and the second frame went out; a read failed
\* after a read in which a telemetry frame behind an undecodable one was
\* taken
C28_Witness ==
    /\ gw_running
    /\ enc_seq = 2
    /\ frames_sent = 1
    /\ wire # None
    /\ wire[1].seq = 1
    /\ rx_frames = << OneByteFrame, TelemetryFrame >>
    /\ link_frames_received = 1
    /\ rx_errors = 1
    /\ gw_receiver = "backoff"

\* ------------------------------------------------------------------------
\* stop() of either backend (SpecStop)
\* ------------------------------------------------------------------------
\* no stop() is under way and the backend does not run: it was stopped, or
\* never started
Quiet ==
    /\ stopPc = "idle"
    /\ ~gw_running
    /\ ~pwm_running

\* start() is called in this step
Starts == starts' = starts + 1

C29_Step ==
    Quiet =>
      /\ ~TaskAlive(gw_sender)
      /\ ~TaskAlive(gw_receiver)
      /\ ~TaskAlive(gw_subscriber)
      /\ ~TaskAlive(pwm_listener)
      /\ ~Starts =>
           /\ wire' = wire
           /\ frames_sent' = frames_sent
           /\ enc_seq' = enc_seq
           /\ parser' = parser
           /\ rx_reads' = rx_reads
           /\ gpio' = gpio
           /\ enabled' = enabled
           /\ current_drive_cmd' = AgedOpt(current_drive_cmd)
                \/ current_drive_cmd' = current_drive_cmd

\* C29: a stop() called in any state of a started backend, whatever its
\* tasks are suspended at, returns; once it has returned, every task the
\* backend spawned has ended: until the next start() no frame is written
\* to the serial port, no byte is fed to the parser and no command is
\* applied to the GPIO pins.
C29_StopQuiesces ==
    /\ [][C29_Step]_vars
    /\ (stopPc = "gathering") ~> (stopPc = "idle")

\* the UART backend was stopped while a write and a read were under way,
\* after a frame had gone out and a read had been processed
C29_Witness ==
    /\ Quiet
    /\ backend = "uart"
    /\ starts >= 1
    /\ gw_sender = "done"
    /\ gw_receiver = "done"
    /\ gw_subscriber = "done"
    /\ gw_serial = "closed"
    /\ frames_sent >= 1
    /\ enc_seq > frames_sent
    /\ rx_reads >= 1
    /\ parser.state # "SCANNING_SOF"

\* the PWM backend was stopped after a command had set the pins
C29_WitnessPwm ==
    /\ Quiet
    /\ backend = "pi_pwm"
    /\ starts >= 1
    /\ delivered
    /\ current_command # None
    /\ ~enabled

\* ------------------------------------------------------------------------
\* Subscriber queues across start/stop cycles (Spec)
\* ------------------------------------------------------------------------
\* len(_subscribers["drive_command"]): the queue of the running subscriber
\* and the queues cancelled subscribers left behind
SubscriberQueues == orphans + (IF subscribed THEN 1 ELSE 0)

\* components whose subscriber task runs
RunningComponents == IF gw_running \/ pwm_running THEN 1 ELSE 0

\* C30: after stop() of a backend the queue its task subscribed is no
\* longer among the subscribers of drive_command: over any number of
\* start/stop cycles the number of subscriber queues of the topic is at
\* most the number of running components whenever no stop() is under way.
C30_NoLeak == stopPc = "idle" => SubscriberQueues <= RunningComponents

\* ------------------------------------------------------------------------
\* The parser across a restart of the UART backend (SpecRx)
\* ------------------------------------------------------------------------
\* start() opened the link in this step
LinkOpens == Starts /\ gw_running'

\* the parser holds no part of a frame
ParserEmpty(p) ==
    /\ p.state = "SCANNING_SOF"
    /\ p.sof_buf = ParserInit.sof_buf
    /\ p.header_idx = 0
    /\ p.payload_idx = 0
    /\ p.crc_idx = 0

\* C31: each time the link is opened the parser is in SCAN_SOF with empty
\* buffers, so a prefix of a frame fed before stop() cancelled the
\* receiver is not combined with the bytes received after the next start().
C31_NoHalfFrame == [][LinkOpens => ParserEmpty(parser')]_vars

\* ------------------------------------------------------------------------
\* The serial handle of the UART backend (Spec)
\* ------------------------------------------------------------------------
\* C32: one start() of the UART backend opens the serial port exactly once
\* when it succeeds and never more than once, so the backend never holds a
\* second handle on the port.
C32_ExclusiveHandle ==
    /\ serial_opens <= 1
    /\ gw_running => serial_opens = 1

\* ------------------------------------------------------------------------
\* The command behind one DRIVE_CMD frame (Spec)
\* ------------------------------------------------------------------------
\* the values a frame may be encoded from: the command in the slot if its
\* own timestamp is fresh, and the two safe substitutes
SnapshotSources ==
    (IF current_drive_cmd # None
        /\ current_drive_cmd[1].age <= MaxCommandAge
     THEN {current_drive_cmd[1]} ELSE {})
    \union {StaleCommand, NoCommandStop}

\* frame f carries the speeds and flags of command c, all four of them
EncodedFrom(f, c) ==
    LET p == from_speeds(c.left_speed, c.right_speed, c.enable_request,
                         c.estop)
    IN /\ f.left_q15 = p.left_q15
       /\ f.right_q15 = p.right_q15
       /\ f.flags = p.flags

\* C33: under every interleaving of the subscriber task and the sender
\* task, the left speed, right speed, enable_request and estop encoded in
\* one DRIVE_CMD frame, and the timestamp its staleness decision used, come
\* from one DriveCommand value, or all from the safe substitute; a frame
\* that reaches the port is the frame that was encoded.
C33_AtomicSnapshot ==
    [][ /\ SenderEncodes =>
             \E c \in SnapshotSources : EncodedFrom(pending'[1], c)
        /\ Written => wire' = pending ]_vars

\* a frame encoded from the forward command waits for its write while the
\* subscriber has already stored another command in the slot
C33_Witness ==
    /\ gw_sender = "writing"
    /\ pending # None
    /\ EncodedFrom(pending[1], DriveCommand(80, 80, TRUE, FALSE, 0))
    /\ current_drive_cmd # None
    /\ current_drive_cmd[1].left_speed = -100
    /\ current_drive_cmd[1].right_speed = 3

\* ------------------------------------------------------------------------
\* Telemetry from the wire to the subscribers (SpecTelemetry)
\* ------------------------------------------------------------------------
\* the messages of s are in the order of their frames on the wire
InWireOrder(s) == \A i, j \in DOMAIN s : i < j => s[i].n < s[j].n

\* what subscriber q was given so far: dequeued, or still in its queue
Given(q) == bus_got[q] \o bus_queues[q]

\* C34: whenever the publish tasks the receiver spawned run between reads,
\* subscribes and dequeues, every subscriber of telemetry is given the
\* telemetry messages in the order in which their frames arrived on the
\* wire; what it is given is what was published since it subscribed, less
\* the messages dropped at its full queue.
C34_TelemetryOrder ==
    \A q \in DOMAIN bus_got :
      bus_topic[q] = "telemetry" =>
        /\ InWireOrder(Given(q))
        /\ InWireOrder(bus_since[q])
        /\ IsSubseq(Given(q), bus_since[q])

\* a subscriber took the first telemetry, lost the third to its full queue
\* and holds the second and the fourth
C34_Witness ==
    \E q \in DOMAIN bus_got :
      /\ bus_topic[q] = "telemetry"
      /\ bus_got[q] = << Message("telemetry", 1) >>
      /\ bus_queues[q] = << Message("telemetry", 2), Message("telemetry", 4) >>
      /\ bus_since[q] = << Message("telemetry", 1), Message("telemetry", 2),
                           Message("telemetry", 3), Message("telemetry", 4) >>
      /\ publish_tasks = <<>>

\* ------------------------------------------------------------------------
\* The UART watchdog leaves no trace (Spec)
\* ------------------------------------------------------------------------
\* the slot holds a command that is not stale
SlotFresh ==
    /\ current_drive_cmd # None
    /\ current_drive_cmd[1].age <= MaxCommandAge

\* C35 as stated: the substitution leaves the slot as it is, and once the
\* subscriber has stored a fresh command the next frame written carries
\* that command's speeds and flags.
C35_NextWritten ==
    [][ /\ SenderEncodes => current_drive_cmd' = current_drive_cmd
        /\ Written /\ SlotFresh =>
             EncodedFrom(wire'[1], current_drive_cmd[1]) ]_vars

\* C35, amended: the substitution leaves the slot as it is, and the next
\* frame the sender encodes while the stored command is still fresh
\* carries that command's speeds and flags; a frame that was encoded
\* before the command was stored is written as it was encoded.
C35_NextEncoded ==
    [][ /\ SenderEncodes => current_drive_cmd' = current_drive_cmd
        /\ SenderEncodes /\ SlotFresh =>
             EncodedFrom(pending'[1], current_drive_cmd[1])
        /\ Written => pending # None /\ wire' = pending ]_vars

\* the frame written last is the substitute for a stale command, and the
\* frame encoded after it carries the fresh forward command stored since
C35_Witness ==
    /\ wire # None
    /\ EncodedFrom(wire[1], StaleCommand)
    /\ SlotFresh
    /\ current_drive_cmd[1].left_speed = 80
    /\ ~current_drive_cmd[1].estop
    /\ pending # None
    /\ EncodedFrom(pending[1], current_drive_cmd[1])
    /\ pending[1].seq > wire[1].seq

\* ------------------------------------------------------------------------
\* The pins of the PWM backend after a command (Spec)
\* ------------------------------------------------------------------------
\* the direction pins A, B of a side
PinA(side) == IF side = "left" THEN "left_in1" ELSE "right_in3"
PinB(side) == IF side = "left" THEN "left_in2" ELSE "right_in4"

\* the row of the mapping for speed s, in hundredths
MappingRow(s) ==
    IF Abs(s) <= DeadbandPwm THEN [a |-> "LOW", b |-> "LOW", duty |-> 0]
    ELSE [a |-> IF s > 0 THEN "HIGH" ELSE "LOW",
          b |-> IF s > 0 THEN "LOW" ELSE "HIGH",
          duty |-> Min2(Abs(s), 100)]

\* side has the pins and the duty of row in g
SideIs(g, side, row) ==
    /\ g.level[PinA(side)] = row.a
    /\ g.level[PinB(side)] = row.b
    /\ g.duty[side] = row.duty

\* C36: every command the listener applies with enable_request true and
\* estop false sets each side from its own speed s: the stop row (A LOW,
\* B LOW, duty 0) if |s| <= deadband, else A HIGH, B LOW for s > 0 and
\* A LOW, B HIGH for s < 0, with duty min(|s| * 100, 100).
C36_PwmMapping ==
    [][ PwmDelivers /\ Head(queue).enable_request /\ ~Head(queue).estop =>
          /\ SideIs(gpio', "left", MappingRow(Head(queue).left_speed))
          /\ SideIs(gpio', "right", MappingRow(Head(queue).right_speed))
          /\ enabled' ]_vars

\* the left side runs in reverse at full duty while the right side, whose
\* speed is inside the deadband, has the stop row
C36_Witness ==
    /\ backend = "pi_pwm"
    /\ pwm_running
    /\ enabled
    /\ current_command # None
    /\ current_command[1].left_speed = -100
    /\ current_command[1].right_speed = 3
    /\ SideIs(gpio, "left", [a |-> "LOW", b |-> "HIGH", duty |-> 100])
    /\ SideIs(gpio, "right", [a |-> "LOW", b |-> "LOW", duty |-> 0])

\* ------------------------------------------------------------------------
\* The enable latch of the PWM backend (Spec)
\* ------------------------------------------------------------------------
\* the backend reports enabled, or a side has a duty above 0
Active == enabled \/ \E sd \in Sides : gpio.duty[sd] # 0

\* cmd asks for motion to be allowed
Enabling(cmd) == cmd.enable_request /\ ~cmd.estop

\* the watchdog of the listener stopped the motors in this step
WatchdogStops ==
    /\ PwmTimesOut
    /\ current_command # None
    /\ StalePwm(last_command_time[1])

C37_Step ==
    /\ Active =>
         /\ pwm_running
         /\ current_command # None
         /\ Enabling(current_command[1])
    /\ PwmDelivers /\ ~Enabling(Head(queue)) => ~Active'
    /\ WatchdogStops => ~Active'
    /\ stopPc' = "gathering" => ~Active'
    /\ ~Active /\ ~(PwmDelivers /\ Enabling(Head(queue))) => ~Active'

\* C37: enabled is true or a duty cycle is above 0 only if the command
\* applied last had enable_request true and estop false and neither a
\* watchdog stop nor stop() came after it; a command with estop or without
\* enable_request, a watchdog stop and stop() leave enabled false and both
\* duties 0, and they stay so until a new command with enable_request true
\* and estop false is applied.
C37_EnableLatch == [][C37_Step]_vars

\* an emergency stop with speeds still set was applied to a running
\* backend: not enabled, both duties 0, while the next command waits
C37_Witness ==
    /\ backend = "pi_pwm"
    /\ pwm_running
    /\ gpio_available
    /\ current_command # None
    /\ current_command[1].estop
    /\ current_command[1].left_speed = 80
    /\ ~Active
    /\ queue # <<>>
    /\ Enabling(Head(queue))

\* ------------------------------------------------------------------------
\* Teardown of the PWM backend (Spec)
\* ------------------------------------------------------------------------
\* C38: on stop() and on every failure inside start(), the direction pins
\* are driven LOW and both duties set to 0 first, then both PWM generators
\* are stopped, and only then are the pins released; cleanup raises no
\* error of its own, a failed start() raising the original error only.
C38_CleanupOrder ==
    /\ gpio.teardown_ok
    /\ backend = "pi_pwm" => raised \in {"none", "RuntimeError"}
    /\ backend = "pi_pwm" /\ raised = "RuntimeError" => ~pwm_running

\* ------------------------------------------------------------------------
\* C39: bounded resynchronization of FrameParser
\* ------------------------------------------------------------------------
\* the longest candidate: a header, a full payload buffer and a CRC
MaxCandidate == HEADER_SIZE + PAYLOAD_BUF_SIZE + CRC_SIZE

\* bytes of the candidate in progress that the parser has consumed since
\* the start-of-frame
CandidateBytes(p) ==
    CASE p.state = "READING_HEADER" -> p.header_idx
      [] p.state = "READING_PAYLOAD" -> HEADER_SIZE + p.payload_idx
      [] p.state = "READING_CRC" -> HEADER_SIZE + p.payload_len + p.crc_idx
      [] OTHER -> 0

\* the step feeds one byte to a parser that is reading a candidate
FedInCandidate ==
    /\ parser.state # "SCANNING_SOF"
    /\ ~rx_exc'
    /\ rx_pos' # rx_pos \/ rx_garbage' # rx_garbage

\* the byte fed ends the candidate
CandidateEnds == FedInCandidate /\ parser'.state = "SCANNING_SOF"

\* every byte of a candidate either counts one more or ends it, and the
\* count stays under the longest candidate
C39_Progress ==
    /\ FedInCandidate /\ ~CandidateEnds =>
          CandidateBytes(parser') = CandidateBytes(parser) + 1
    /\ FedInCandidate => CandidateBytes(parser) + 1 <= MaxCandidate

\* C39 as stated: a parser outside SCANNING_SOF comes back to it within
\* 261 bytes, and every candidate takes exactly 4 + len + 2 bytes, len
\* being the fourth header byte
C39_ExactLength ==
    [][ /\ C39_Progress
        /\ CandidateEnds =>
              CandidateBytes(parser) + 1
                = HEADER_SIZE + parser'.header_buf[HEADER_SIZE] + CRC_SIZE
      ]_vars

\* C39, amended: a parser outside SCANNING_SOF comes back to it within 261
\* bytes; a candidate whose version byte is PROTOCOL_VERSION takes exactly
\* 4 + len + 2 bytes, and one with another version byte takes exactly 4
C39_BoundedResync ==
    [][ /\ C39_Progress
        /\ CandidateEnds =>
              CandidateBytes(parser) + 1
                = IF parser'.header_buf[1] = PROTOCOL_VERSION
                  THEN HEADER_SIZE + parser'.header_buf[HEADER_SIZE]
                         + CRC_SIZE
                  ELSE HEADER_SIZE
      ]_vars

\* the longest candidate has been read to its last byte and returned
C39_Witness ==
    /\ parser.state = "SCANNING_SOF"
    /\ parser.payload_len = PAYLOAD_BUF_SIZE
    /\ parser.frames_received = 1
    /\ rx_pos = Len(rx_input)
    /\ rx_pos = MaxCandidate + Len(rx_garbage) + 1
    /\ rx_garbage = << SOF_BYTE_0 >>

\* a header with a wrong version has been dropped after its fourth byte
C39_WitnessVersion ==
    /\ parser.state = "SCANNING_SOF"
    /\ parser.version_errors = 1
    /\ parser.header_idx = HEADER_SIZE
    /\ parser.header_buf[1] # PROTOCOL_VERSION

\* ------------------------------------------------------------------------
\* C40: the direction pins of the PWM backend
\* ------------------------------------------------------------------------
BothHigh(g, side) ==
    g.level[PinA(side)] = "HIGH" /\ g.level[PinB(side)] = "HIGH"

BothLow(g, side) ==
    g.level[PinA(side)] = "LOW" /\ g.level[PinB(side)] = "LOW"

\* the pins as start, a command, a watchdog stop or stop leaves them
RowsAtRest ==
    \A side \in Sides :
      /\ ~BothHigh(gpio, side)
      /\ BothLow(gpio, side) => gpio.duty[side] = 0

\* C40: the two direction pins of a side are never both HIGH, between the
\* writes of one actuation included, and a side with both pins LOW has
\* duty 0 when the actuation is over
C40_PinInvariant ==
    backend = "pi_pwm" => gpio.pins_ok /\ RowsAtRest

\* the pins between two actuations only
C40_RowsAtRest == backend = "pi_pwm" => RowsAtRest

\* a side that ran in reverse runs forward
C40_Reversed ==
    /\ backend = "pi_pwm"
    /\ pwm_running
    /\ ~gpio.pins_ok
    /\ gpio.level["left_in1"] = "HIGH"
    /\ gpio.level["left_in2"] = "LOW"
    /\ gpio.duty["left"] > 0

====
